---- MODULE Spec2Model ----
(***************************************************************************)
(* A model of millijson: the two byte sources (RawReader, FileReader), the *)
(* literal decoders (extract_string, extract_number, is_expected_string),  *)
(* the two provisioners and the iterative engine parse_internal, driven    *)
(* through the four public entry points on one and the same byte sequence. *)
(*                                                                         *)
(* Bytes are naturals 0..255, text is a sequence of bytes.  A double is    *)
(* modelled as an exact decimal m * 10^e (rounding is not modelled).       *)
(* A C++ exception is a result record with ok = FALSE carrying the message *)
(* (its text, the character it names, the position it reports).            *)
(***************************************************************************)
EXTENDS Integers, Sequences, FiniteSets, TLC

(***************************************************************************)
(* Characters named by the source.                                         *)
(***************************************************************************)
NUL == 0
BS == 8
TAB == 9
LF == 10
FF == 12
CR == 13
US == 31
SPACE == 32
QUOTE == 34
PLUS == 43
COMMA == 44
MINUS == 45
DOT == 46
SLASH == 47
DIGIT0 == 48
DIGIT9 == 57
COLON == 58
UPPER_A == 65
UPPER_E == 69
UPPER_F == 70
LBRACKET == 91
BACKSLASH == 92
RBRACKET == 93
LOWER_A == 97
LOWER_B == 98
LOWER_E == 101
LOWER_F == 102
LOWER_L == 108
LOWER_N == 110
LOWER_R == 114
LOWER_S == 115
LOWER_T == 116
LOWER_U == 117
LBRACE == 123
RBRACE == 125
DEL == 127

(***************************************************************************)
(* Results of a call that may throw, and error messages.                   *)
(***************************************************************************)
\* .ch is the character a message names (-1: none), .pos the position it reports
\* (positions in messages are 1-based; 0: the message carries none).
Err(what, ch, pos) == [what |-> what, ch |-> ch, pos |-> pos]
ErrAt(what, pos) == Err(what, -1, pos)
ErrChar(what, ch) == Err(what, ch, 0)
ErrMsg(what) == Err(what, -1, 0)
NoErr == ErrMsg("")
Ret(input, value) == [ok |-> TRUE, input |-> input, value |-> value, err |-> NoErr]
Throw(input, err) == [ok |-> FALSE, input |-> input, value |-> <<>>, err |-> err]

Min(a, b) == IF a <= b THEN a ELSE b

(***************************************************************************)
(* RawReader: a pointer and a length.  my_ptr[my_len] lies outside the     *)
(* caller's array: .beyond is the byte the memory happens to hold there.   *)
(* .invalid_get records that get() was called while valid() was false.    *)
(***************************************************************************)
RawReader(ptr, len, beyond) ==
    [kind |-> "raw", my_pos |-> 0, my_ptr |-> ptr, my_len |-> len,
     beyond |-> beyond, invalid_get |-> FALSE, failed |-> FALSE, io_error |-> NoErr]

RawReader_get(r) == IF r.my_pos < r.my_len THEN r.my_ptr[r.my_pos + 1] ELSE r.beyond

RawReader_valid(r) == r.my_pos < r.my_len

RawReader_advance(r) == [r EXCEPT !.my_pos = @ + 1]

RawReader_position(r) == r.my_pos

(***************************************************************************)
(* The C stream behind a FileReader: its contents, offset, EOF indicator,  *)
(* and which fread call (if any) fails with an I/O error.                  *)
(***************************************************************************)
fopen(contents, fail_at) ==
    [contents |-> contents, offset |-> 0, eof |-> FALSE, error |-> FALSE,
     reads |-> 0, reads_at_eof |-> 0, fail_at |-> fail_at]

\* std::fread(buffer, 1, size, handle): <<stream', buffer', count>>
fread(h, buffer) ==
    LET size == Len(buffer)
        fails == h.reads + 1 = h.fail_at
        count == IF fails THEN 0 ELSE Min(size, Len(h.contents) - h.offset)
    IN  [handle |-> [h EXCEPT !.offset = @ + count,
                              !.eof = @ \/ (~fails /\ count < size),
                              !.error = @ \/ (fails /\ size > 0),
                              !.reads = @ + 1,
                              !.reads_at_eof = @ + (IF h.eof THEN 1 ELSE 0)],
         buffer |-> [i \in 1..size |-> IF i <= count THEN h.contents[h.offset + i] ELSE buffer[i]],
         count |-> count]

\* std::numeric_limits<Size>::max(), scaled to the integers of the model checker
max_size == 2147483647

\* a check that never returns 0
check_buffer_size_at_least_one(buffer_size) ==
    IF buffer_size >= max_size THEN max_size ELSE IF buffer_size = 0 THEN 1 ELSE buffer_size

check_buffer_size(buffer_size) == IF buffer_size >= max_size THEN max_size ELSE buffer_size

\* a fill() that takes every short read for the end of the file
fill_check_without_feof(r, rd) ==
    IF rd.count = Len(r.my_buffer)
    THEN [r EXCEPT !.my_handle = rd.handle, !.my_buffer = rd.buffer, !.my_available = rd.count]
    ELSE [r EXCEPT !.my_handle = rd.handle, !.my_buffer = rd.buffer,
                   !.my_available = rd.count, !.my_finished = TRUE]

\* lines 1156-1164 of fill(), with rd what fread did
fill_check(r, rd) ==
    IF rd.count = Len(r.my_buffer)
    THEN [r EXCEPT !.my_handle = rd.handle, !.my_buffer = rd.buffer, !.my_available = rd.count]
    ELSE IF rd.handle.eof
    THEN [r EXCEPT !.my_handle = rd.handle, !.my_buffer = rd.buffer,
                   !.my_available = rd.count, !.my_finished = TRUE]
    ELSE [r EXCEPT !.my_handle = rd.handle, !.my_buffer = rd.buffer,
                   !.my_available = rd.count, !.failed = TRUE,
                   !.io_error = ErrMsg("failed to read file (error")]

\* a fill() that reads again after the end of the file
FileReader_fill_rereading(r) == fill_check(r, fread(r.my_handle, r.my_buffer))

FileReader_fill(r) ==
    IF r.my_finished THEN [r EXCEPT !.my_available = 0]
    ELSE fill_check(r, fread(r.my_handle, r.my_buffer))

\* The constructor after a successful fopen; a throwing fill() leaves .failed set.
FileReader(contents, buffer_size, fail_at) ==
    FileReader_fill(
        [kind |-> "file", my_handle |-> fopen(contents, fail_at),
         my_buffer |-> [i \in 1..check_buffer_size(buffer_size) |-> NUL],
         my_available |-> 0, my_index |-> 0, my_overall |-> 0, my_finished |-> FALSE,
         beyond |-> NUL, invalid_get |-> FALSE, failed |-> FALSE, io_error |-> NoErr])

FileReader_get(r) ==
    IF r.my_index < Len(r.my_buffer) THEN r.my_buffer[r.my_index + 1] ELSE r.beyond

FileReader_valid(r) == r.my_index < r.my_available

\* an advance() that does not add the block to my_overall
FileReader_advance_without_overall(r) ==
    IF r.my_index + 1 < r.my_available THEN [r EXCEPT !.my_index = @ + 1]
    ELSE FileReader_fill([r EXCEPT !.my_index = 0])

FileReader_advance(r) ==
    IF r.my_index + 1 < r.my_available THEN [r EXCEPT !.my_index = @ + 1]
    ELSE FileReader_fill([r EXCEPT !.my_index = 0, !.my_overall = @ + r.my_available])

FileReader_position(r) == r.my_overall + r.my_index

(***************************************************************************)
(* The Input_ interface the engine is a template over.  An exception out   *)
(* of advance() (a failed read) ends the parse: the reader is marked       *)
(* .failed, every later call on it is a no-op, and the entry point reports *)
(* .io_error instead of whatever the engine went on to compute.            *)
(***************************************************************************)
get(r) == IF r.kind = "raw" THEN RawReader_get(r) ELSE FileReader_get(r)

valid(r) == ~r.failed /\ (IF r.kind = "raw" THEN RawReader_valid(r) ELSE FileReader_valid(r))

advance(r) ==
    IF r.failed THEN r
    ELSE IF r.kind = "raw" THEN RawReader_advance(r) ELSE FileReader_advance(r)

position(r) == IF r.kind = "raw" THEN RawReader_position(r) ELSE FileReader_position(r)

\* the reader after a call of get(): only the ghost flag changes
got(r) == [r EXCEPT !.invalid_get = @ \/ (~r.failed /\ ~valid(r))]

(***************************************************************************)
(* Whitespace skipping.  The result is the reader; the bool the source     *)
(* returns is valid() of that reader.                                      *)
(***************************************************************************)
\* a raw_chomp that has lost the case for the tab
IsSpace_without_tab(c) == c \in {SPACE, LF, CR}

\* a raw_chomp with a case for the form feed
IsSpace_with_form_feed(c) == c \in {SPACE, LF, CR, TAB, FF}

\* the cases of the switch of raw_chomp, lines 316-319
IsSpace(c) == c \in {SPACE, LF, CR, TAB}

RECURSIVE raw_chomp(_)
raw_chomp(input) ==
    IF ~valid(input) THEN input
    ELSE IF IsSpace(get(input)) THEN raw_chomp(advance(got(input)))
    ELSE got(input)

check_and_chomp(input) == raw_chomp(input)

advance_and_chomp(input) == raw_chomp(advance(input))

is_digit(val) == val >= DIGIT0 /\ val <= DIGIT9

(***************************************************************************)
(* is_expected_string: ptr is the expected literal, its first character    *)
(* already matched by the caller.  expected_check is the body of the for   *)
(* loop after its advance().                                               *)
(***************************************************************************)
RECURSIVE expected_check(_, _, _)
expected_loop(input, ptr, i) ==
    IF i > Len(ptr) THEN Ret(advance(input), TRUE)
    ELSE expected_check(advance(input), ptr, i)

\* a comparison that lets the last character of the literal be any
expected_check_any_last(r, ptr, i) ==
    IF ~valid(r) THEN Ret(r, FALSE)
    ELSE IF get(r) # ptr[i] /\ i < Len(ptr) THEN Ret(got(r), FALSE)
    ELSE expected_loop(got(r), ptr, i + 1)

expected_check(r, ptr, i) ==
    IF ~valid(r) THEN Ret(r, FALSE)
    ELSE IF get(r) # ptr[i] THEN Ret(got(r), FALSE)
    ELSE expected_loop(got(r), ptr, i + 1)

is_expected_string(input, ptr) == expected_loop(input, ptr, 2)

(***************************************************************************)
(* extract_string.                                                         *)
(***************************************************************************)
RECURSIVE BitOr(_, _)
BitOr(a, b) ==
    IF a = 0 THEN b ELSE IF b = 0 THEN a
    ELSE (IF a % 2 = 1 \/ b % 2 = 1 THEN 1 ELSE 0) + 2 * BitOr(a \div 2, b \div 2)

\* the three-byte form with the middle byte left unmasked
utf8_unmasked(mb) ==
    IF mb <= 127 THEN <<mb>>
    ELSE IF mb <= 2047
    THEN <<BitOr(mb \div 64, 192) % 256, BitOr(mb % 64, 128)>>
    ELSE <<BitOr(mb \div 4096, 224) % 256, BitOr(mb \div 64, 128) % 256, BitOr(mb % 64, 128)>>

\* the UTF-8 bytes appended for the 16-bit value mb
utf8(mb) ==
    IF mb <= 127 THEN <<mb>>
    ELSE IF mb <= 2047
    THEN <<BitOr(mb \div 64, 192) % 256, BitOr(mb % 64, 128)>>
    ELSE <<BitOr(mb \div 4096, 224) % 256, BitOr((mb \div 64) % 64, 128), BitOr(mb % 64, 128)>>

HexValue(val) ==
    IF val >= DIGIT0 /\ val <= DIGIT9 THEN val - DIGIT0
    ELSE IF val >= LOWER_A /\ val <= LOWER_F THEN (val - LOWER_A) + 10
    ELSE IF val >= UPPER_A /\ val <= UPPER_F THEN (val - UPPER_A) + 10
    ELSE 0 - 1

\* the for loop over the four hex digits of a \u escape; mb is an unsigned short;
\* unicode_digit is its body after the advance()
RECURSIVE unicode_digit(_, _, _, _)
unicode_loop(input, mb, i, start) ==
    IF i = 4 THEN Ret(input, mb)
    ELSE unicode_digit(advance(input), mb, i, start)

unicode_digit(r, mb, i, start) ==
    IF ~valid(r) THEN Throw(r, ErrAt("unterminated string at position", start))
    ELSE IF HexValue(get(r)) < 0
    THEN Throw(got(r), ErrAt("invalid unicode escape detected at position", position(r) + 1))
    ELSE unicode_loop(got(r), (((mb * 16) % 65536) + HexValue(get(r))) % 65536, i + 1, start)

\* the cases of \n and \r with their bytes exchanged
SimpleEscape_exchanged(next2) ==
    CASE next2 = QUOTE -> QUOTE
      [] next2 = LOWER_N -> CR
      [] next2 = LOWER_R -> LF
      [] next2 = BACKSLASH -> BACKSLASH
      [] next2 = SLASH -> SLASH
      [] next2 = LOWER_B -> BS
      [] next2 = LOWER_F -> FF
      [] next2 = LOWER_T -> TAB
      [] OTHER -> 0 - 1

\* the byte a single-character escape stands for, -1 if it is none of them
SimpleEscape(next2) ==
    CASE next2 = QUOTE -> QUOTE
      [] next2 = LOWER_N -> LF
      [] next2 = LOWER_R -> CR
      [] next2 = BACKSLASH -> BACKSLASH
      [] next2 = SLASH -> SLASH
      [] next2 = LOWER_B -> BS
      [] next2 = LOWER_F -> FF
      [] next2 = LOWER_T -> TAB
      [] OTHER -> 0 - 1

\* the cases of lines 453-456 without case 127
IsControl_without_del(next) == next >= NUL /\ next <= US

IsControl(next) == (next >= NUL /\ next <= US) \/ next = DEL

RECURSIVE string_loop(_, _, _)
\* the "if (!input.advance())" ending every iteration that did not return or throw,
\* r being the reader after that advance()
string_continue(r, output, start) ==
    IF ~valid(r) THEN Throw(r, ErrAt("unterminated string at position", start))
    ELSE string_loop(r, output, start)

\* after the four digits of a \u escape
string_unicode(u, output, start) ==
    IF u.ok THEN string_continue(advance(u.input), output \o utf8(u.value), start)
    ELSE u

\* case '\\', r being the reader after its advance()
string_escape(r, output, start) ==
    IF ~valid(r) THEN Throw(r, ErrAt("unterminated string at position", start))
    ELSE IF SimpleEscape(get(r)) >= 0
    THEN string_continue(advance(got(r)), Append(output, SimpleEscape(get(r))), start)
    ELSE IF get(r) = LOWER_U
    THEN string_unicode(unicode_loop(got(r), 0, 0, start), output, start)
    ELSE Throw(got(r), ErrChar("unrecognized escape", get(r)))

\* one iteration of the while (1) loop, from "char next = input.get()"
string_loop(input, output, start) ==
    IF get(input) = QUOTE THEN Ret(advance(got(input)), output)
    ELSE IF get(input) = BACKSLASH THEN string_escape(advance(got(input)), output, start)
    ELSE IF IsControl(get(input))
    THEN Throw(got(input), ErrAt("string contains ASCII control character at position",
                                 position(input) + 1))
    ELSE string_continue(advance(got(input)), Append(output, get(input)), start)

extract_string(input) == string_loop(advance(input), <<>>, position(input) + 1)

(***************************************************************************)
(* Doubles, as exact decimals [m, e] standing for m * 10^e, kept in one    *)
(* normal form (m not divisible by 10, zero is [0, 0]) so that equal       *)
(* numbers are equal records.                                              *)
(***************************************************************************)
RECURSIVE Pow10(_)
Pow10(n) == IF n <= 0 THEN 1 ELSE 10 * Pow10(n - 1)

RECURSIVE DecNorm(_, _)
DecNorm(m, e) ==
    IF m = 0 THEN [m |-> 0, e |-> 0]
    ELSE IF m % 10 = 0 THEN DecNorm(m \div 10, e + 1)
    ELSE [m |-> m, e |-> e]

DecInt(n) == DecNorm(n, 0)

DecAdd(a, b) ==
    LET e == Min(a.e, b.e)
    IN  DecNorm(a.m * Pow10(a.e - e) + b.m * Pow10(b.e - e), e)

DecMul(a, b) == DecNorm(a.m * b.m, a.e + b.e)

DecNeg(a) == [a EXCEPT !.m = 0 - @]

\* a / p for p a power of ten
DecDiv(a, p) == DecNorm(a.m, a.e - p.e)

\* std::pow(10.0, exponent)
pow10(exponent) == [m |-> 1, e |-> exponent]

(***************************************************************************)
(* extract_number<as_string_>.  In string mode value is the text so far,   *)
(* otherwise the double so far.  An operator named *_next is the code      *)
(* after an advance(), r being the reader that advance() left.  Returning  *)
(* value is the label total_end.                                           *)
(***************************************************************************)
IsTerminator(val) == val \in {COMMA, RBRACKET, RBRACE, SPACE, CR, LF, TAB}

add_string_value(as_string, value, x) == IF as_string THEN Append(value, x) ELSE value

\* a digit that is added to the value as it stands
add_digit_unshifted(as_string, value, val) ==
    IF as_string THEN Append(value, val)
    ELSE DecAdd(value, DecInt(val - DIGIT0))

\* "value *= 10; value += val - '0'" or "value += val"
add_digit(as_string, value, val) ==
    IF as_string THEN Append(value, val)
    ELSE DecAdd(DecMul(value, DecInt(10)), DecInt(val - DIGIT0))

\* "fractional *= 10; value += (val - '0') / fractional" or "value += val",
\* fractional being the power of ten already multiplied
add_fraction_digit(as_string, value, val, fractional) ==
    IF as_string THEN Append(value, val)
    ELSE DecAdd(value, DecDiv(DecInt(val - DIGIT0), fractional))

\* the label exponent_end
exponent_end(as_string, value, exponent, negative_exponent) ==
    IF as_string \/ exponent = 0 THEN value
    ELSE DecMul(value, pow10(IF negative_exponent THEN 0 - exponent ELSE exponent))

RECURSIVE exponent_next(_, _, _, _, _, _)
\* lines 624-640: the while loop over the later digits of the exponent
exponent_loop(as_string, input, value, exponent, negative_exponent, start) ==
    exponent_next(as_string, advance(input), value, exponent, negative_exponent, start)

exponent_next(as_string, r, value, exponent, negative_exponent, start) ==
    IF ~valid(r) THEN Ret(r, exponent_end(as_string, value, exponent, negative_exponent))
    ELSE IF IsTerminator(get(r))
    THEN Ret(got(r), exponent_end(as_string, value, exponent, negative_exponent))
    ELSE IF is_digit(get(r))
    THEN exponent_loop(as_string, got(r), add_string_value(as_string, value, get(r)),
                       exponent * 10 + (get(r) - DIGIT0), negative_exponent, start)
    ELSE Throw(got(r), Err("invalid number containing", get(r), start))

\* lines 618-622: the first digit of the exponent, the reader being on it
exponent_first(as_string, input, value, negative_exponent, start) ==
    exponent_loop(as_string, got(input), add_string_value(as_string, value, get(input)),
                  get(input) - DIGIT0, negative_exponent, start)

\* a sign of the exponent that another sign may follow
exponent_signed_twice(as_string, r, value, negative_exponent, start) ==
    IF ~valid(r)
    THEN Throw(r, ErrAt("invalid number with trailing exponent sign at position", start))
    ELSE IF get(r) \in {PLUS, MINUS}
    THEN exponent_next(as_string, advance(got(r)), value, 0, negative_exponent, start)
    ELSE IF ~is_digit(get(r))
    THEN Throw(got(r),
           ErrAt("exponent sign must be followed by at least one digit in number at position",
                 start))
    ELSE exponent_first(as_string, r, value, negative_exponent, start)

\* lines 609-615: after the sign of the exponent
exponent_signed(as_string, r, value, negative_exponent, start) ==
    IF ~valid(r)
    THEN Throw(r, ErrAt("invalid number with trailing exponent sign at position", start))
    ELSE IF ~is_digit(get(r))
    THEN Throw(got(r),
           ErrAt("exponent sign must be followed by at least one digit in number at position",
                 start))
    ELSE exponent_first(as_string, r, value, negative_exponent, start)

\* lines 596-616: after the 'e' or 'E'
exponent_start(as_string, r, value, start) ==
    IF ~valid(r)
    THEN Throw(r, ErrAt("invalid number with trailing 'e/E' at position", start))
    ELSE IF is_digit(get(r)) THEN exponent_first(as_string, r, value, FALSE, start)
    ELSE IF get(r) = MINUS
    THEN exponent_signed(as_string, advance(got(r)),
                         add_string_value(as_string, value, get(r)), TRUE, start)
    ELSE IF get(r) # PLUS
    THEN Throw(got(r),
           ErrAt("'e/E' should be followed by a sign or digit in number at position", start))
    ELSE exponent_signed(as_string, advance(got(r)), value, FALSE, start)

\* if (in_exponent), entered with the reader on the 'e' or 'E'
number_exponent(as_string, input, value, start) ==
    exponent_start(as_string, advance(input), value, start)

RECURSIVE fraction_next(_, _, _, _, _)
\* lines 567-587: the while loop over the later digits of the fraction
fraction_loop(as_string, input, value, fractional, start) ==
    fraction_next(as_string, advance(input), value, fractional, start)

fraction_next(as_string, r, value, fractional, start) ==
    IF ~valid(r) THEN Ret(r, value)
    ELSE IF get(r) = LOWER_E \/ get(r) = UPPER_E
    THEN number_exponent(as_string, got(r), add_string_value(as_string, value, get(r)), start)
    ELSE IF IsTerminator(get(r)) THEN Ret(got(r), value)
    ELSE IF is_digit(get(r))
    THEN fraction_loop(as_string, got(r),
                       add_fraction_digit(as_string, value, get(r),
                                          DecMul(fractional, DecInt(10))),
                       DecMul(fractional, DecInt(10)), start)
    ELSE Throw(got(r), Err("invalid number containing", get(r), start))

\* a '.' that no digit need follow
fraction_start_optional(as_string, r, value, start) ==
    IF ~valid(r) THEN Throw(r, ErrAt("invalid number with trailing '.' at position", start))
    ELSE fraction_next(as_string, r, value, DecInt(1), start)

\* lines 551-565: after the '.'
fraction_start(as_string, r, value, start) ==
    IF ~valid(r) THEN Throw(r, ErrAt("invalid number with trailing '.' at position", start))
    ELSE IF ~is_digit(get(r))
    THEN Throw(got(r), ErrAt("'.' must be followed by at least one digit at position", start))
    ELSE fraction_loop(as_string, got(r),
                       add_fraction_digit(as_string, value, get(r), DecInt(10)),
                       DecInt(10), start)

\* if (in_fraction), entered with the reader on the '.'
number_fraction(as_string, input, value, start) ==
    fraction_start(as_string, advance(input), value, start)

RECURSIVE integral_next(_, _, _, _)
\* lines 521-545: the while loop over the later digits of the integer part
integral_loop(as_string, input, value, start) ==
    integral_next(as_string, advance(input), value, start)

integral_next(as_string, r, value, start) ==
    IF ~valid(r) THEN Ret(r, value)
    ELSE IF get(r) = DOT
    THEN number_fraction(as_string, got(r), add_string_value(as_string, value, get(r)), start)
    ELSE IF get(r) = LOWER_E \/ get(r) = UPPER_E
    THEN number_exponent(as_string, got(r), add_string_value(as_string, value, get(r)), start)
    ELSE IF IsTerminator(get(r)) THEN Ret(got(r), value)
    ELSE IF is_digit(get(r))
    THEN integral_loop(as_string, got(r), add_digit(as_string, value, get(r)), start)
    ELSE Throw(got(r), Err("invalid number containing", get(r), start))

\* a leading 0 that lets digits follow it
after_zero_lenient(as_string, r, value, start) ==
    IF ~valid(r) THEN Ret(r, value)
    ELSE IF get(r) = DOT
    THEN number_fraction(as_string, got(r), add_string_value(as_string, value, get(r)), start)
    ELSE IF get(r) = LOWER_E \/ get(r) = UPPER_E
    THEN number_exponent(as_string, got(r), add_string_value(as_string, value, get(r)), start)
    ELSE IF IsTerminator(get(r)) THEN Ret(got(r), value)
    ELSE integral_next(as_string, r, value, start)

\* lines 496-514: after the advance() past a leading '0'
after_zero(as_string, r, value, start) ==
    IF ~valid(r) THEN Ret(r, value)
    ELSE IF get(r) = DOT
    THEN number_fraction(as_string, got(r), add_string_value(as_string, value, get(r)), start)
    ELSE IF get(r) = LOWER_E \/ get(r) = UPPER_E
    THEN number_exponent(as_string, got(r), add_string_value(as_string, value, get(r)), start)
    ELSE IF IsTerminator(get(r)) THEN Ret(got(r), value)
    ELSE Throw(got(r), ErrAt("invalid number starting with 0 at position", start))

extract_number(as_string, input) ==
    IF get(input) = DIGIT0
    THEN after_zero(as_string, advance(got(input)),
                    IF as_string THEN <<get(input)>> ELSE DecInt(0), position(input) + 1)
    ELSE integral_loop(as_string, got(input),
                       IF as_string THEN <<get(input)>> ELSE DecInt(get(input) - DIGIT0),
                       position(input) + 1)

(***************************************************************************)
(* Values and the two provisioners.  An Object's mapping is a function     *)
(* from keys (texts) to values; a placeholder carries its type tag only.   *)
(***************************************************************************)
NullPtr == [type |-> "nullptr"]

DefaultProvisioner_new_boolean(x) == [type |-> "BOOLEAN", value |-> x]
DefaultProvisioner_new_number(x) == [type |-> "NUMBER", value |-> x]
DefaultProvisioner_new_number_as_string(x) == [type |-> "NUMBER_AS_STRING", value |-> x]
DefaultProvisioner_new_string(x) == [type |-> "STRING", value |-> x]
DefaultProvisioner_new_nothing == [type |-> "NOTHING"]
DefaultProvisioner_new_array(x) == [type |-> "ARRAY", value |-> x]
DefaultProvisioner_new_object(x) == [type |-> "OBJECT", value |-> x]

FakeProvisioner_new_boolean(x) == [type |-> "BOOLEAN"]
FakeProvisioner_new_number(x) == [type |-> "NUMBER"]
FakeProvisioner_new_number_as_string(x) == [type |-> "NUMBER_AS_STRING"]
FakeProvisioner_new_string(x) == [type |-> "STRING"]
FakeProvisioner_new_nothing == [type |-> "NOTHING"]
FakeProvisioner_new_array(x) == [type |-> "ARRAY"]
FakeProvisioner_new_object(x) == [type |-> "OBJECT"]

\* Provisioner_::new_*, for the template argument P
new_boolean(P, x) ==
    IF P = "Default" THEN DefaultProvisioner_new_boolean(x) ELSE FakeProvisioner_new_boolean(x)
new_number(P, x) ==
    IF P = "Default" THEN DefaultProvisioner_new_number(x) ELSE FakeProvisioner_new_number(x)
new_number_as_string(P, x) ==
    IF P = "Default" THEN DefaultProvisioner_new_number_as_string(x)
    ELSE FakeProvisioner_new_number_as_string(x)
new_string(P, x) ==
    IF P = "Default" THEN DefaultProvisioner_new_string(x) ELSE FakeProvisioner_new_string(x)
new_nothing(P) ==
    IF P = "Default" THEN DefaultProvisioner_new_nothing ELSE FakeProvisioner_new_nothing
new_array(P, x) ==
    IF P = "Default" THEN DefaultProvisioner_new_array(x) ELSE FakeProvisioner_new_array(x)
new_object(P, x) ==
    IF P = "Default" THEN DefaultProvisioner_new_object(x) ELSE FakeProvisioner_new_object(x)

\* the literals is_expected_string is called with
LitTrue == <<LOWER_T, LOWER_R, LOWER_U, LOWER_E>>
LitFalse == <<LOWER_F, LOWER_A, LOWER_L, LOWER_S, LOWER_E>>
LitNull == <<LOWER_N, LOWER_U, LOWER_L, LOWER_L>>

(***************************************************************************)
(* parse_internal<P>.  Its activation is a record: the template argument   *)
(* P, the options, the locals (input, stack, array_stack, object_stack,    *)
(* start, output) and where control is:                                    *)
(*   "value"    at the top of the outer while (1), before the switch       *)
(*   "unwind"   at the top of the inner while (1)                          *)
(*   "finish"   at parse_finish                                            *)
(*   "returned" / "thrown"  left, with output or with the exception .err   *)
(* Each operator below is one step from one of these points to the next.   *)
(***************************************************************************)
EmptyMapping == [k \in {} |-> NullPtr]

ObjectContents(key) == [mapping |-> EmptyMapping, key |-> key]

\* a pop_back() that was forgotten
Pop_forgotten(s) == s

\* pop_back()
Pop(s) == SubSeq(s, 1, Len(s) - 1)

Back(s) == s[Len(s)]

SetBack(s, x) == [s EXCEPT ![Len(s)] = x]

\* an error that is passed over: the byte is skipped and taken for a null
throw_recovering(a, input, err) ==
    IF input.failed \/ ~valid(input)
    THEN [a EXCEPT !.pc = "thrown", !.input = input, !.output = NullPtr,
                   !.err = IF input.failed THEN input.io_error ELSE err]
    ELSE [a EXCEPT !.pc = "unwind", !.input = advance(input), !.output = new_nothing(a.P)]

\* the exception leaves parse_internal; one raised by the reader's advance() wins,
\* as it was raised first
throw(a, input, err) ==
    [a EXCEPT !.pc = "thrown", !.input = input, !.output = NullPtr,
              !.err = IF input.failed THEN input.io_error ELSE err]

\* control moves on with the locals as given, unless advance() has thrown
goto(a, pc, input) ==
    IF input.failed THEN throw(a, input, input.io_error)
    ELSE [a EXCEPT !.pc = pc, !.input = input]

\* extract_object_key from line 756, r being the reader after advance_and_chomp()
key_value(r, key, start) ==
    IF ~valid(r) THEN Throw(r, ErrAt("unterminated object starting at position", start))
    ELSE Ret(r, key)

\* extract_object_key from line 750, r being the reader after check_and_chomp()
key_colon(r, key, start) ==
    IF ~valid(r) THEN Throw(r, ErrAt("unterminated object starting at position", start))
    ELSE IF get(r) # COLON
    THEN Throw(got(r), ErrAt("expected ':' to separate keys and values at position",
                             position(r) + 1))
    ELSE key_value(advance_and_chomp(got(r)), key, start)

\* extract_object_key from line 749, key being what extract_string did
key_string(key, start) ==
    IF ~key.ok THEN key ELSE key_colon(check_and_chomp(key.input), key.value, start)

\* a key kept as the bytes between its quotes, escapes and all
source_of(r) == IF r.kind = "raw" THEN r.my_ptr ELSE r.my_handle.contents

undecoded(r, key) ==
    IF ~key.ok THEN key
    ELSE [key EXCEPT !.value = SubSeq(source_of(r), position(r) + 2, position(key.input) - 1)]

extract_object_key_undecoded(input, start) ==
    IF get(input) # QUOTE
    THEN Throw(got(input), ErrAt("expected a string as the object key at position",
                                 position(input) + 1))
    ELSE key_string(undecoded(input, extract_string(got(input))), start)

extract_object_key(input, start) ==
    IF get(input) # QUOTE
    THEN Throw(got(input), ErrAt("expected a string as the object key at position",
                                 position(input) + 1))
    ELSE key_string(extract_string(got(input)), start)

\* lines 724-743, r being the reader after check_and_chomp()
begin_chomped(P, r, options) ==
    IF ~valid(r)
    THEN [P |-> P, options |-> options, pc |-> "thrown", input |-> r,
          stack |-> <<>>, array_stack |-> <<>>, object_stack |-> <<>>,
          start |-> 0, output |-> NullPtr,
          err |-> IF r.failed THEN r.io_error ELSE ErrMsg("invalid JSON with no contents")]
    ELSE [P |-> P, options |-> options, pc |-> "value", input |-> r,
          stack |-> <<>>, array_stack |-> <<>>, object_stack |-> <<>>,
          start |-> position(r) + 1, output |-> NullPtr, err |-> NoErr]

\* lines 722-743: the call, up to the first iteration of the outer loop
parse_begin(P, input, options) == begin_chomped(P, check_and_chomp(input), options)

\* a value has been built: on to the inner loop
produced(a, input, output) == goto([a EXCEPT !.output = output], "unwind", input)

\* m is what is_expected_string did
literal_matched(a, m, output, what) ==
    IF ~m.value THEN throw(a, m.input, ErrAt(what, a.start))
    ELSE produced(a, m.input, output)

\* s is what extract_string did
string_extracted(a, s) ==
    IF ~s.ok THEN throw(a, s.input, s.err)
    ELSE produced(a, s.input, new_string(a.P, s.value))

\* n is what extract_number<true> did
text_extracted(a, n, negative) ==
    IF ~n.ok THEN throw(a, n.input, n.err)
    ELSE produced(a, n.input,
                  new_number_as_string(a.P, IF negative THEN <<MINUS>> \o n.value
                                            ELSE n.value))

\* a number built without its sign
double_extracted_unsigned(a, n, negative) ==
    IF ~n.ok THEN throw(a, n.input, n.err)
    ELSE produced(a, n.input, new_number(a.P, n.value))

\* n is what extract_number<false> did
double_extracted(a, n, negative) ==
    IF ~n.ok THEN throw(a, n.input, n.err)
    ELSE produced(a, n.input, new_number(a.P, IF negative THEN DecNeg(n.value) ELSE n.value))

\* lines 824-828 and 832-836
parse_number(a, input, negative) ==
    IF a.options.number_as_string
    THEN text_extracted(a, extract_number(TRUE, input), negative)
    ELSE double_extracted(a, extract_number(FALSE, input), negative)

\* lines 792-802, r being the reader after advance_and_chomp()
array_opened(a, r) ==
    IF ~valid(r) THEN throw(a, r, ErrAt("unterminated array starting at position", a.start))
    ELSE IF get(r) # RBRACKET
    THEN goto([a EXCEPT !.stack = Append(@, "ARRAY"), !.array_stack = Append(@, <<>>)],
              "value", got(r))
    ELSE produced(a, advance(got(r)), new_array(a.P, <<>>))

\* an object whose frame is tagged as an array
first_key_mistagged(a, key) ==
    IF ~key.ok THEN throw(a, key.input, key.err)
    ELSE goto([a EXCEPT !.stack = Append(@, "ARRAY"),
                        !.object_stack = Append(@, ObjectContents(key.value))],
              "value", key.input)

\* line 810, key being what extract_object_key did
first_key(a, key) ==
    IF ~key.ok THEN throw(a, key.input, key.err)
    ELSE goto([a EXCEPT !.stack = Append(@, "OBJECT"),
                        !.object_stack = Append(@, ObjectContents(key.value))],
              "value", key.input)

\* lines 805-815, r being the reader after advance_and_chomp()
object_opened(a, r) ==
    IF ~valid(r) THEN throw(a, r, ErrAt("unterminated object starting at position", a.start))
    ELSE IF get(r) # RBRACE THEN first_key(a, extract_object_key(got(r), a.start))
    ELSE produced(a, advance(got(r)), new_object(a.P, EmptyMapping))

\* lines 818-828, r being the reader after the advance() past '-'
minus_seen(a, r) ==
    IF ~valid(r) THEN throw(a, r, ErrAt("incomplete number starting at position", a.start))
    ELSE IF ~is_digit(get(r))
    THEN throw(a, got(r), ErrAt("invalid number starting at position", a.start))
    ELSE parse_number(a, got(r), TRUE)

\* lines 764-841: one pass through the switch on the current character
parse_value(a) ==
    CASE get(a.input) = LOWER_T ->
           literal_matched(a, is_expected_string(got(a.input), LitTrue),
                           new_boolean(a.P, TRUE), "expected a 'true' string at position")
      [] get(a.input) = LOWER_F ->
           literal_matched(a, is_expected_string(got(a.input), LitFalse),
                           new_boolean(a.P, FALSE), "expected a 'false' string at position")
      [] get(a.input) = LOWER_N ->
           literal_matched(a, is_expected_string(got(a.input), LitNull),
                           new_nothing(a.P), "expected a 'null' string at position")
      [] get(a.input) = QUOTE -> string_extracted(a, extract_string(got(a.input)))
      [] get(a.input) = LBRACKET -> array_opened(a, advance_and_chomp(got(a.input)))
      [] get(a.input) = LBRACE -> object_opened(a, advance_and_chomp(got(a.input)))
      [] get(a.input) = MINUS -> minus_seen(a, advance(got(a.input)))
      [] is_digit(get(a.input)) -> parse_number(a, got(a.input), FALSE)
      [] OTHER ->
           throw(a, got(a.input), Err("unknown type starting with", get(a.input), a.start))

\* a comma that may be followed by the closing bracket
array_comma_trailing(a, r2) ==
    IF ~valid(r2) THEN throw(a, r2, ErrAt("unterminated array starting at position", a.start))
    ELSE IF get(r2) = RBRACKET
    THEN goto([a EXCEPT !.output = new_array(a.P, Back(a.array_stack)),
                        !.stack = Pop(@), !.array_stack = Pop(@)],
              "unwind", advance(got(r2)))
    ELSE goto(a, "value", r2)

\* lines 858-861, r2 being the reader after advance_and_chomp()
array_comma(a, r2) ==
    IF ~valid(r2) THEN throw(a, r2, ErrAt("unterminated array starting at position", a.start))
    ELSE goto(a, "value", r2)

\* a comma that is met again and again
array_continue_unmoved(a, contents, r) ==
    IF ~valid(r) THEN throw(a, r, ErrAt("unterminated array starting at position", a.start))
    ELSE IF get(r) = COMMA THEN goto(a, "unwind", got(r))
    ELSE IF get(r) # RBRACKET
    THEN throw(a, got(r), Err("unknown character in array at position", get(r),
                              position(r) + 1))
    ELSE goto([a EXCEPT !.output = new_array(a.P, contents),
                        !.stack = Pop(@), !.array_stack = Pop(@)],
              "unwind", advance(got(r)))

\* lines 852-870, a being the activation after emplace_back, contents the top of
\* array_stack, r the reader after check_and_chomp()
array_continue(a, contents, r) ==
    IF ~valid(r) THEN throw(a, r, ErrAt("unterminated array starting at position", a.start))
    ELSE IF get(r) = COMMA THEN array_comma(a, advance_and_chomp(got(r)))
    ELSE IF get(r) # RBRACKET
    THEN throw(a, got(r), Err("unknown character in array at position", get(r),
                              position(r) + 1))
    ELSE goto([a EXCEPT !.output = new_array(a.P, contents),
                        !.stack = Pop(@), !.array_stack = Pop(@)],
              "unwind", advance(got(r)))

\* an insertion at the front of the vector
emplace_front(contents, output) == <<output>> \o contents

\* contents.emplace_back(std::move(output))
emplace_back(contents, output) == Append(contents, output)

\* lines 848-870: the top frame is an array
unwind_array(a) ==
    array_continue([a EXCEPT !.array_stack = SetBack(@, emplace_back(Back(@), a.output)),
                             !.output = NullPtr],
                   emplace_back(Back(a.array_stack), a.output),
                   check_and_chomp(a.input))

\* one pending key for all the open objects
next_key_shared(a, k2) ==
    IF ~k2.ok THEN throw(a, k2.input, k2.err)
    ELSE goto([a EXCEPT !.object_stack =
                            [i \in DOMAIN @ |-> [@[i] EXCEPT !.key = k2.value]]],
              "value", k2.input)

\* a key that is looked up in the mapping as soon as it is read
next_key_checked(a, k2) ==
    IF ~k2.ok THEN throw(a, k2.input, k2.err)
    ELSE IF k2.value \in DOMAIN Back(a.object_stack).mapping
    THEN throw(a, k2.input, ErrAt("detected duplicate keys in the object at position",
                                  position(k2.input) + 1))
    ELSE goto([a EXCEPT !.object_stack = SetBack(@, [Back(@) EXCEPT !.key = k2.value])],
              "value", k2.input)

\* line 889, k2 being what extract_object_key did
next_key(a, k2) ==
    IF ~k2.ok THEN throw(a, k2.input, k2.err)
    ELSE goto([a EXCEPT !.object_stack = SetBack(@, [Back(@) EXCEPT !.key = k2.value])],
              "value", k2.input)

\* a comma that may be followed by the closing brace
object_comma_trailing(a, r2) ==
    IF ~valid(r2) THEN throw(a, r2, ErrAt("unterminated object starting at position", a.start))
    ELSE IF get(r2) = RBRACE
    THEN goto([a EXCEPT !.output = new_object(a.P, Back(a.object_stack).mapping),
                        !.stack = Pop(@), !.object_stack = Pop(@)],
              "unwind", advance(got(r2)))
    ELSE next_key(a, extract_object_key(r2, a.start))

\* lines 886-890, r2 being the reader after advance_and_chomp()
object_comma(a, r2) ==
    IF ~valid(r2) THEN throw(a, r2, ErrAt("unterminated object starting at position", a.start))
    ELSE next_key(a, extract_object_key(r2, a.start))

\* lines 880-899, a being the activation after the insertion, r the reader after
\* check_and_chomp()
object_continue(a, r) ==
    IF ~valid(r) THEN throw(a, r, ErrAt("unterminated object starting at position", a.start))
    ELSE IF get(r) = COMMA THEN object_comma(a, advance_and_chomp(got(r)))
    ELSE IF get(r) # RBRACE
    THEN throw(a, got(r), Err("unknown character in array at position", get(r),
                              position(r) + 1))
    ELSE goto([a EXCEPT !.output = new_object(a.P, Back(a.object_stack).mapping),
                        !.stack = Pop(@), !.object_stack = Pop(@)],
              "unwind", advance(got(r)))

\* mapping[std::move(key)] = std::move(output)
insert(mapping, key, output) ==
    [k \in DOMAIN mapping \cup {key} |-> IF k = key THEN output ELSE mapping[k]]

\* the insertion without the search for the key before it
unwind_object_overwriting(a) ==
    object_continue(
        [a EXCEPT !.object_stack =
                      SetBack(@, [mapping |-> insert(Back(@).mapping, Back(@).key, a.output),
                                  key |-> <<>>]),
                  !.output = NullPtr],
        check_and_chomp(a.input))

\* lines 872-900: the top frame is an object
unwind_object(a) ==
    IF Back(a.object_stack).key \in DOMAIN Back(a.object_stack).mapping
    THEN throw(a, a.input, ErrAt("detected duplicate keys in the object at position",
                                 position(a.input) + 1))
    ELSE object_continue(
           [a EXCEPT !.object_stack =
                         SetBack(@, [mapping |-> insert(Back(@).mapping, Back(@).key, a.output),
                                     key |-> <<>>]),
                     !.output = NullPtr],
           check_and_chomp(a.input))

\* lines 843-901: one pass through the inner while (1)
\* an inner loop that does not see that no frame is left
parse_unwind_spinning(a) ==
    IF a.stack = <<>> THEN goto(a, "unwind", a.input)
    ELSE IF Back(a.stack) = "ARRAY" THEN unwind_array(a)
    ELSE unwind_object(a)

parse_unwind(a) ==
    IF a.stack = <<>> THEN goto(a, "finish", a.input)
    ELSE IF Back(a.stack) = "ARRAY" THEN unwind_array(a)
    ELSE unwind_object(a)

\* lines 904-908, r being the reader after check_and_chomp()
\* the position reported as position(), counted from 0
finish_chomped_from_zero(a, r) ==
    IF valid(r)
    THEN throw(a, r, ErrAt("invalid JSON with trailing non-space characters at position",
                           position(r)))
    ELSE goto(a, "returned", r)

finish_chomped(a, r) ==
    IF valid(r)
    THEN throw(a, r, ErrAt("invalid JSON with trailing non-space characters at position",
                           position(r) + 1))
    ELSE goto(a, "returned", r)

parse_finish(a) == finish_chomped(a, check_and_chomp(a.input))

\* one step of a live activation
parse_step(a) ==
    CASE a.pc = "value" -> parse_value(a)
      [] a.pc = "unwind" -> parse_unwind(a)
      [] a.pc = "finish" -> parse_finish(a)

(***************************************************************************)
(* The program: the four public entry points, called one after the other   *)
(* on the same byte sequence (as an array in memory, and as the contents   *)
(* of a file) with the same options.                                       *)
(***************************************************************************)
VARIABLES
    bytes,        \* the input: the caller's array, and the file's contents
    beyond,       \* the byte the last memory reader had right after the caller's array
    options,      \* FileReadOptions: buffer_size (0 until the first file call) and parse_options
    faults,       \* whether reads of the file may fail
    meta,         \* how the input was put together (what a test knows about its input)
    calls,        \* how many entry points have been called
    entry,        \* the entry point that is running, or "none"
    act,          \* the activation of parse_internal, live or as it was left
    results,      \* what each entry point returned or threw
    handles,      \* FILE handles opened and closed so far
    walk,         \* the two readers when a caller drives them itself, call by call
    tasks         \* the activations of parses that run at the same time

vars ==
    <<bytes, beyond, options, faults, meta, calls, entry, act, results, handles, walk, tasks>>

NoWalk == [phase |-> "none"]

NoTasks == <<>>

MaxBuf == 3
MaxReads == 2

EntryPoints == <<"parse_string", "validate_string", "parse_file", "validate_file">>

BufferSizes == 1..MaxBuf

\* the buffer sizes a caller sets: in the family "io", 0 as well
BufferSizesFor(m) == IF m.family = "io" THEN 0..MaxBuf ELSE BufferSizes

Idle == [pc |-> "idle", stack |-> <<>>]

NoResult == [status |-> "none", type |-> "", value |-> NullPtr, err |-> NoErr]

Live(a) == a.pc \in {"value", "unwind", "finish"}

\* what parse() hands back: the tree; what validate() hands back: ptr->type()
Returned(e, a) ==
    IF e \in {"parse_string", "parse_file"}
    THEN [status |-> "ok", type |-> a.output.type, value |-> a.output, err |-> NoErr]
    ELSE [status |-> "ok", type |-> a.output.type, value |-> NullPtr, err |-> NoErr]

Thrown(err) == [status |-> "error", type |-> "", value |-> NullPtr, err |-> err]

\* The activation a of entry point e after a step: either it goes on, or the entry
\* point is left and, for a file, ~FileReader closes the handle.  opened is 1 in the
\* step in which the FileReader was constructed.
Settle(e, a, opened) ==
    /\ act' = a
    /\ IF Live(a)
       THEN /\ entry' = e
            /\ results' = results
            /\ handles' = [handles EXCEPT !.opened = @ + opened]
       ELSE /\ entry' = "none"
            /\ results' = [results EXCEPT ![e] = IF a.pc = "returned" THEN Returned(e, a)
                                                 ELSE Thrown(a.err)]
            /\ handles' = IF a.input.kind = "file"
                          THEN [handles EXCEPT !.opened = @ + opened, !.closed = @ + 1]
                          ELSE handles

Call(e) ==
    /\ entry = "none"
    /\ calls < Len(EntryPoints)
    /\ EntryPoints[calls + 1] = e
    /\ calls' = calls + 1

\* The bytes that may be found after the caller's array when the reader reads
\* my_ptr[my_len]: the terminator of a C string, or whatever else lies there.
\* The read is undefined behaviour, so every call finds a byte of its own.  It
\* happens only when the last byte of the input is a quote that opens a string
\* (ReadsBeyondOnlyAfterQuote), which is when extract_string does not check
\* what advance() returned.
BeyondBytes == {NUL, QUOTE, LOWER_A, BACKSLASH}

\* where a reader of strings stands after the text s: outside a string ("text"),
\* inside one ("string"), or after a backslash inside one ("escape")
RECURSIVE LexMode(_, _)
LexMode(s, mode) ==
    IF s = <<>> THEN mode
    ELSE LexMode(Tail(s),
                 CASE mode = "escape" -> "string"
                   [] mode = "string" -> (IF Head(s) = BACKSLASH THEN "escape"
                                          ELSE IF Head(s) = QUOTE THEN "text" ELSE "string")
                   [] mode = "text" -> (IF Head(s) = QUOTE THEN "string" ELSE "text"))

EndsWithOpeningQuote(b) ==
    /\ b # <<>>
    /\ b[Len(b)] = QUOTE
    /\ LexMode(SubSeq(b, 1, Len(b) - 1), "text") = "text"

BeyondFor(b) == IF EndsWithOpeningQuote(b) THEN BeyondBytes ELSE {NUL}

parse_string ==
    /\ Call("parse_string")
    /\ \E b \in BeyondFor(bytes) :
          /\ beyond' = b
          /\ Settle("parse_string",
                    parse_begin("Default", RawReader(bytes, Len(bytes), b),
                                options.parse_options), 0)
    /\ UNCHANGED <<bytes, options, faults, meta, walk, tasks>>

validate_string ==
    /\ Call("validate_string")
    /\ \E b \in BeyondFor(bytes) :
          /\ beyond' = b
          /\ Settle("validate_string",
                    parse_begin("Fake", RawReader(bytes, Len(bytes), b),
                                options.parse_options), 0)
    /\ UNCHANGED <<bytes, options, faults, meta, walk, tasks>>

\* FileReader input(path, options.buffer_size); then parse or validate.  When the
\* constructor's fill() throws, no FileReader exists and no destructor runs.
Opened(e, P, input) ==
    IF input.failed
    THEN /\ act' = [Idle EXCEPT !.pc = "thrown"]
         /\ entry' = "none"
         /\ results' = [results EXCEPT ![e] = Thrown(input.io_error)]
         /\ handles' = [handles EXCEPT !.opened = @ + 1]
    ELSE Settle(e, parse_begin(P, input, options.parse_options), 1)

OpenAndParse(e, P, buffer_size, fail_at) == Opened(e, P, FileReader(bytes, buffer_size, fail_at))

FailAts == IF faults THEN 0..MaxReads ELSE {0}

parse_file ==
    /\ Call("parse_file")
    /\ \E buffer_size \in BufferSizesFor(meta), fail_at \in FailAts :
          /\ options' = [options EXCEPT !.buffer_size = buffer_size]
          /\ OpenAndParse("parse_file", "Default", buffer_size, fail_at)
    /\ UNCHANGED <<bytes, beyond, faults, meta, walk, tasks>>

validate_file ==
    /\ Call("validate_file")
    /\ \E fail_at \in FailAts :
          OpenAndParse("validate_file", "Fake", options.buffer_size, fail_at)
    /\ UNCHANGED <<bytes, beyond, options, faults, meta, walk, tasks>>

\* one pass through the switch of the outer loop
Value ==
    /\ entry # "none"
    /\ act.pc = "value"
    /\ Settle(entry, parse_value(act), 0)
    /\ UNCHANGED <<bytes, beyond, options, faults, meta, calls, walk, tasks>>

\* one pass through the inner loop
Unwind ==
    /\ entry # "none"
    /\ act.pc = "unwind"
    /\ Settle(entry, parse_unwind(act), 0)
    /\ UNCHANGED <<bytes, beyond, options, faults, meta, calls, walk, tasks>>

Finish ==
    /\ entry # "none"
    /\ act.pc = "finish"
    /\ Settle(entry, parse_finish(act), 0)
    /\ UNCHANGED <<bytes, beyond, options, faults, meta, calls, walk, tasks>>

Next ==
    \/ parse_string
    \/ validate_string
    \/ parse_file
    \/ validate_file
    \/ Value
    \/ Unwind
    \/ Finish

(***************************************************************************)
(* Inputs.  Every family records in meta how the input was put together,   *)
(* which is what a test knows about the input it wrote.                    *)
(***************************************************************************)
MaxLen == 3
MaxNodes == 4
MaxPrefix == 1
MaxSpaces == 3

SeqsUpTo(S, n) == UNION {[1..k -> S] : k \in 0..n}

RECURSIVE Concat(_)
Concat(ss) == IF ss = <<>> THEN <<>> ELSE Head(ss) \o Concat(Tail(ss))

DIGIT1 == DIGIT0 + 1

Quoted(text) == <<QUOTE>> \o text \o <<QUOTE>>

\* ---- family "bytes": every short sequence over the structural characters
Alphabet ==
    {LBRACKET, RBRACKET, LBRACE, RBRACE, COMMA, COLON, QUOTE, SPACE, DIGIT1, LOWER_A}

Spaces == {SPACE, TAB, CR, LF}

\* ---- family "doc": documents that follow the grammar, by number of values.
\* A scalar document is named by its text; an object document lists its entries
\* in the order of the text, so that a key can come twice.
Scalars ==
    {[kind |-> "scalar", text |-> <<DIGIT1>>],
     [kind |-> "scalar", text |-> Quoted(<<LOWER_A>>)],
     [kind |-> "scalar", text |-> LitTrue]}

Keys == {<<LOWER_A>>, <<LOWER_B>>}

RECURSIVE DocsOfSize(_), Forests(_), EntryForests(_)
DocsOfSize(n) ==
    IF n < 1 THEN {}
    ELSE (IF n = 1 THEN Scalars ELSE {})
         \cup {[kind |-> "array", items |-> f] : f \in Forests(n - 1)}
         \cup {[kind |-> "object", entries |-> f] : f \in EntryForests(n - 1)}

\* the sequences of documents with n values in all
Forests(n) ==
    IF n = 0 THEN {<<>>}
    ELSE UNION {{<<d>> \o f : d \in DocsOfSize(k), f \in Forests(n - k)} : k \in 1..n}

EntryForests(n) ==
    IF n = 0 THEN {<<>>}
    ELSE UNION {{<<[key |-> key, value |-> d]>> \o f :
                    key \in Keys, d \in DocsOfSize(k), f \in EntryForests(n - k)} : k \in 1..n}

Docs == UNION {DocsOfSize(n) : n \in 1..MaxNodes}

\* the text of a document, sp being the whitespace written around every token
RECURSIVE Serialize(_, _), SerializeItems(_, _), SerializeEntries(_, _)
Serialize(d, sp) ==
    CASE d.kind = "scalar" -> d.text
      [] d.kind = "array" -> <<LBRACKET>> \o sp \o SerializeItems(d.items, sp) \o <<RBRACKET>>
      [] d.kind = "object" -> <<LBRACE>> \o sp \o SerializeEntries(d.entries, sp) \o <<RBRACE>>

SerializeItems(items, sp) ==
    IF items = <<>> THEN <<>>
    ELSE Serialize(Head(items), sp) \o sp
         \o (IF Len(items) > 1 THEN <<COMMA>> \o sp ELSE <<>>)
         \o SerializeItems(Tail(items), sp)

SerializeEntries(entries, sp) ==
    IF entries = <<>> THEN <<>>
    ELSE Quoted(Head(entries).key) \o sp \o <<COLON>> \o sp
         \o Serialize(Head(entries).value, sp) \o sp
         \o (IF Len(entries) > 1 THEN <<COMMA>> \o sp ELSE <<>>)
         \o SerializeEntries(Tail(entries), sp)

Styles == {<<>>, <<SPACE>>}

\* ---- family "string": one string literal, given as its tokens, in a context.
\* A token is its bytes in the text, its kind, and the bytes it decodes to.
Token(b, kind, out) == [bytes |-> b, kind |-> kind, out |-> out]

EscapeTable ==
    {<<QUOTE, QUOTE>>, <<BACKSLASH, BACKSLASH>>, <<SLASH, SLASH>>, <<LOWER_B, BS>>,
     <<LOWER_F, FF>>, <<LOWER_N, LF>>, <<LOWER_R, CR>>, <<LOWER_T, TAB>>}

EscapeLetters == {p[1] : p \in EscapeTable}

EscapeTokens == {Token(<<BACKSLASH, p[1]>>, "escape", <<p[2]>>) : p \in EscapeTable}

ControlBytes == (NUL..US) \cup {DEL}

ByteToken(b) ==
    IF b \in ControlBytes THEN Token(<<b>>, "control", <<>>) ELSE Token(<<b>>, "plain", <<b>>)

BadEscapeToken(b) == Token(<<BACKSLASH, b>>, "bad_escape", <<>>)

GoodTokens == {ByteToken(LOWER_A), ByteToken(200)} \cup EscapeTokens

SomeTokens ==
    GoodTokens
    \cup {ByteToken(b) : b \in {NUL, TAB, LF, US, DEL}}
    \cup {BadEscapeToken(b) : b \in {NUL, TAB, SPACE, DIGIT0, LOWER_A, UPPER_A, 200}}

\* every byte that is not the quote or the backslash, and every escape but \u
AllTokens ==
    {ByteToken(b) : b \in (0..255) \ {QUOTE, BACKSLASH}}
    \cup EscapeTokens
    \cup {BadEscapeToken(b) : b \in (0..255) \ (EscapeLetters \cup {LOWER_U})}

LoneBackslash == Token(<<BACKSLASH>>, "lone_backslash", <<>>)

\* where the literal stands: the text before it and the text after it
Contexts ==
    {[name |-> "root", pre |-> <<>>, post |-> <<>>],
     [name |-> "spaced", pre |-> <<SPACE, LF>>, post |-> <<SPACE>>],
     [name |-> "element", pre |-> <<LBRACKET>> \o LitNull \o <<COMMA>>, post |-> <<RBRACKET>>],
     [name |-> "key", pre |-> <<LBRACE>>, post |-> <<COLON>> \o LitNull \o <<RBRACE>>],
     [name |-> "member", pre |-> <<LBRACE>> \o Quoted(<<LOWER_B>>) \o <<COLON>>,
      post |-> <<RBRACE>>]}

RootContext == CHOOSE c \in Contexts : c.name = "root"

TokenBytes(items) == Concat([i \in 1..Len(items) |-> items[i].bytes])

\* the text: the literal is closed by a quote and followed by the context's post,
\* or the text ends inside the literal
StringText(ctx, items, closed) ==
    ctx.pre \o <<QUOTE>> \o TokenBytes(items)
    \o (IF closed THEN <<QUOTE>> \o ctx.post ELSE <<>>)

StringInputs ==
    {[family |-> "string", ctx |-> c, items |-> p \o t, closed |-> cl] :
        c \in Contexts, p \in SeqsUpTo(GoodTokens, MaxPrefix),
        t \in {<<>>} \cup {<<x>> : x \in SomeTokens}, cl \in BOOLEAN}
    \cup {[family |-> "string", ctx |-> c, items |-> p \o <<LoneBackslash>>, closed |-> FALSE] :
        c \in Contexts, p \in SeqsUpTo(GoodTokens, MaxPrefix)}
    \cup {[family |-> "string", ctx |-> RootContext, items |-> <<x>>, closed |-> cl] :
        x \in AllTokens, cl \in BOOLEAN}

\* ---- family "unicode": a string literal whose tokens are \u escapes
MaxUnicode == 600

\* the hexadecimal digit d as a character; position i of the escape decides the
\* case of a letter in the style "mixed"
HexChar(d, style, i) ==
    IF d < 10 THEN DIGIT0 + d
    ELSE IF style = "upper" \/ (style = "mixed" /\ i % 2 = 1) THEN UPPER_A + (d - 10)
    ELSE LOWER_A + (d - 10)

HexDigits(v, style) ==
    <<HexChar(v \div 4096, style, 1), HexChar((v \div 256) % 16, style, 2),
      HexChar((v \div 16) % 16, style, 3), HexChar(v % 16, style, 4)>>

\* the UTF-8 encoding of the code point v < 65536, by the standard's table
StandardUtf8(v) ==
    IF v < 128 THEN <<v>>
    ELSE IF v < 2048 THEN <<192 + (v \div 64), 128 + (v % 64)>>
    ELSE <<224 + (v \div 4096), 128 + ((v \div 64) % 64), 128 + (v % 64)>>

UnicodeToken(v, style) ==
    Token(<<BACKSLASH, LOWER_U>> \o HexDigits(v, style), "unicode", StandardUtf8(v))

\* the escape of v with its digit i replaced by the byte b, which is no hex digit
BadUnicodeToken(v, i, b) ==
    Token(<<BACKSLASH, LOWER_U>> \o [HexDigits(v, "lower") EXCEPT ![i] = b], "bad_unicode", <<>>)

HexStyles == {"lower", "upper", "mixed"}

\* the values at the ends of the three ranges and of the surrogate range, and
\* one value in every 97 of the others
EdgeValues == {0, 65, 127, 128, 233, 2047, 2048, 8364, 55295, 55296, 56319, 56320, 57343,
               57344, 43981, 65535}

UnicodeValues == EdgeValues \cup {(k * 97) % 65536 : k \in 0..MaxUnicode}

Surrogates == {55296, 55357, 56319, 56320, 56832, 57343}

\* the bytes next to the three ranges of hex digits, and some others
NotHex == {NUL, SPACE, QUOTE, SLASH, COLON, UPPER_A - 1, UPPER_F + 1, LOWER_A - 1,
           LOWER_F + 1, 200}

ContextNamed(n) == CHOOSE c \in Contexts : c.name = n

UnicodeInput(ctx, items) ==
    [family |-> "unicode", ctx |-> ContextNamed(ctx), items |-> items, closed |-> TRUE]

UnicodeInputs ==
    {UnicodeInput("root", <<UnicodeToken(v, st)>>) : v \in UnicodeValues, st \in HexStyles}
    \cup {UnicodeInput(c, <<UnicodeToken(v, "upper"), UnicodeToken(w, "lower")>>) :
            c \in {"root", "key"}, v \in Surrogates \cup {65}, w \in Surrogates \cup {233}}
    \cup {UnicodeInput("member", <<t, UnicodeToken(v, "mixed"), t>>) :
            t \in GoodTokens, v \in {233, 8364, 55357}}
    \cup {UnicodeInput(c, <<BadUnicodeToken(43981, i, b)>>) :
            c \in {"root", "element"}, i \in 1..4, b \in NotHex}

\* ---- family "number": one numeric literal, or an attempt at one, in a context
MaxNumLen == 3

\* the characters of numbers, and one that is none
NumChars == {DIGIT0, DIGIT1, DOT, LOWER_E, UPPER_E, PLUS, MINUS, LOWER_A}

\* every text of up to MaxNumLen of these characters that starts as a number does
ShortLiterals ==
    {t \in SeqsUpTo(NumChars, MaxNumLen) : t # <<>> /\ t[1] \in {DIGIT0, DIGIT1, MINUS}}

\* the literals of the grammar: sign, integer part, fraction, exponent; and the
\* same with an exponent that stops after its sign
LongLiterals ==
    {sign \o int \o frac \o exp :
        sign \in {<<>>, <<MINUS>>},
        int \in {<<DIGIT0>>, <<DIGIT1>>, <<DIGIT1, DIGIT0>>},
        frac \in {<<>>, <<DOT, DIGIT0>>, <<DOT, DIGIT0 + 5, DIGIT1>>},
        exp \in {<<>>, <<LOWER_E, DIGIT1>>, <<UPPER_E, DIGIT0>>, <<LOWER_E, PLUS, DIGIT1>>,
                 <<LOWER_E, MINUS, DIGIT1>>, <<UPPER_E, PLUS, DIGIT1, DIGIT0>>,
                 <<UPPER_E, MINUS, DIGIT0, DIGIT1>>, <<LOWER_E, PLUS>>, <<UPPER_E, MINUS>>}}

\* what may follow a literal of the grammar: nothing, or one more character
Stray == {<<>>, <<DOT>>, <<LOWER_E>>, <<PLUS>>, <<MINUS>>, <<LOWER_A>>, <<200>>}

\* where the literal stands; the text after it starts with a terminator or is empty
NumContexts ==
    {[name |-> "end", pre |-> <<>>, post |-> <<>>],
     [name |-> "space", pre |-> <<SPACE>>, post |-> <<SPACE>>],
     [name |-> "tab", pre |-> <<>>, post |-> <<TAB>>],
     [name |-> "cr", pre |-> <<>>, post |-> <<CR>>],
     [name |-> "lf", pre |-> <<>>, post |-> <<LF>>],
     [name |-> "element", pre |-> <<LBRACKET>>, post |-> <<RBRACKET>>],
     [name |-> "first", pre |-> <<LBRACKET>>, post |-> <<COMMA>> \o LitNull \o <<RBRACKET>>],
     [name |-> "member", pre |-> <<LBRACE>> \o Quoted(<<LOWER_B>>) \o <<COLON>>,
      post |-> <<RBRACE>>]}

NumberInputs ==
    {[family |-> "number", ctx |-> c, lit |-> t] : c \in NumContexts, t \in ShortLiterals}
    \cup {[family |-> "number", ctx |-> c, lit |-> t \o x] :
            c \in {c \in NumContexts : c.name \in {"end", "space", "first", "member"}},
            t \in LongLiterals, x \in Stray}

\* ---- the family "literal": the first cut characters of true, false or null,
\* then a tail: nothing, one character other than the next of the literal, or
\* that character and the rest of the literal.
Literals == {LitTrue, LitFalse, LitNull}

LiteralChars ==
    {LOWER_A, LOWER_E, LOWER_L, LOWER_R, LOWER_S, LOWER_U, UPPER_E, NUL, SPACE, TAB, COMMA,
     RBRACKET, RBRACE, QUOTE, DIGIT0}

LiteralTails(lit, cut) ==
    {<<>>}
    \cup {<<c>> : c \in LiteralChars \ (IF cut < Len(lit) THEN {lit[cut + 1]} ELSE {})}
    \cup {<<c>> \o SubSeq(lit, cut + 1, Len(lit)) :
            c \in IF cut < Len(lit) THEN {LOWER_A, UPPER_E, SPACE} \ {lit[cut + 1]} ELSE {}}

LiteralContexts == {c \in Contexts : c.name # "key"}

LiteralInputs ==
    UNION {{[family |-> "literal", ctx |-> c, lit |-> lit, cut |-> cut, tail |-> t] :
              c \in LiteralContexts, t \in LiteralTails(lit, cut)} :
           lit \in Literals, cut \in 1..5}

LiteralText(m) == m.ctx.pre \o SubSeq(m.lit, 1, m.cut) \o m.tail \o m.ctx.post

\* ---- the family "space": the document [1,{"b":true}] with the bytes fill at one
\* of the ten places where whitespace may stand, and the bytes rest at the others.
MaxFill == 2

\* the byte 0x0B, the vertical tab
VerticalTab == FF - 1

FillBytes == {SPACE, TAB, CR, LF, VerticalTab, FF, NUL, BS}

SpacedTokens ==
    <<<<LBRACKET>>, <<DIGIT1>>, <<COMMA>>, <<LBRACE>>, Quoted(<<LOWER_B>>), <<COLON>>, LitTrue,
      <<RBRACE>>, <<RBRACKET>>>>

SpaceInputs ==
    {[family |-> "space", gap |-> g, fill |-> f, rest |-> r] :
        g \in 0..Len(SpacedTokens), f \in SeqsUpTo(FillBytes, MaxFill),
        r \in {<<>>, <<SPACE, LF>>, <<TAB>>, <<CR>>}}

GapText(m, g) == IF g = m.gap THEN m.fill ELSE m.rest

SpaceText(m) ==
    GapText(m, 0)
    \o Concat([i \in 1..Len(SpacedTokens) |-> SpacedTokens[i] \o GapText(m, i)])

\* ---- the family "unknown": one token where a value is expected, at the root, in
\* arrays and in objects; the token is a byte that starts no value, or a value.
OtherBytes ==
    {NUL, PLUS, COMMA, DOT, SLASH, COLON, UPPER_A, UPPER_F, BACKSLASH, RBRACKET, LOWER_A,
     LOWER_U, RBRACE, DEL, 200}

ValueTokens ==
    {<<DIGIT0>>, <<DIGIT1>>, <<DIGIT9>>, <<MINUS, DIGIT1>>, LitTrue, LitFalse, LitNull,
     Quoted(<<>>), <<LBRACKET, RBRACKET>>, <<LBRACE, RBRACE>>}

\* where the value is expected: the text before it, and the text that closes the
\* document after it
ValueContexts ==
    {[name |-> "root", pre |-> <<>>, post |-> <<>>],
     [name |-> "spaced", pre |-> <<SPACE, LF>>, post |-> <<SPACE>>],
     [name |-> "opened", pre |-> <<LBRACKET>>, post |-> <<RBRACKET>>],
     [name |-> "element", pre |-> <<LBRACKET>> \o LitNull \o <<COMMA, SPACE>>,
      post |-> <<RBRACKET>>],
     [name |-> "member", pre |-> <<LBRACE>> \o Quoted(<<LOWER_B>>) \o <<COLON>>,
      post |-> <<RBRACE>>],
     [name |-> "nested",
      pre |-> <<LBRACKET>> \o LitNull \o <<COMMA, LBRACE>> \o Quoted(<<LOWER_B>>)
              \o <<COLON, LBRACKET, DIGIT1, COMMA>>,
      post |-> <<RBRACKET, RBRACE, RBRACKET>>]}

\* a ']' after the '[' of an array closes the array
UnknownInputs ==
    {[family |-> "unknown", ctx |-> c, tok |-> t, closed |-> z] :
        c \in ValueContexts, t \in ValueTokens \cup {<<b>> : b \in OtherBytes}, z \in BOOLEAN}
    \ {[family |-> "unknown", ctx |-> c, tok |-> <<RBRACKET>>, closed |-> z] :
        c \in {c \in ValueContexts : c.name = "opened"}, z \in BOOLEAN}

UnknownText(m) == m.ctx.pre \o m.tok \o (IF m.closed THEN m.ctx.post ELSE <<>>)

\* ---- the family "open": containers nested in one another, the text ending
\* inside the innermost one (or, stop being "done", every container closed).
MaxDepth == 3

Kinds == {"array", "object"}

\* the text of a container up to the value that is the next container
OuterText(kind) ==
    IF kind = "array" THEN <<LBRACKET, DIGIT1, COMMA, SPACE>>
    ELSE <<LBRACE>> \o Quoted(<<LOWER_B>>) \o <<COLON>>

Closer(kind) == IF kind = "array" THEN <<RBRACKET>> ELSE <<RBRACE>>

Stops(kind) ==
    IF kind = "array" THEN {"opened", "value", "comma", "done"}
    ELSE {"opened", "key", "colon", "value", "comma", "done"}

\* the text of the innermost container up to where the text stops
InnerText(kind, stop) ==
    IF kind = "array"
    THEN CASE stop = "opened" -> <<LBRACKET>>
           [] stop = "value" -> <<LBRACKET, DIGIT1>>
           [] stop = "comma" -> <<LBRACKET, DIGIT1, COMMA>>
           [] stop = "done" -> <<LBRACKET, DIGIT1, RBRACKET>>
    ELSE CASE stop = "opened" -> <<LBRACE>>
           [] stop = "key" -> <<LBRACE>> \o Quoted(<<LOWER_B>>)
           [] stop = "colon" -> <<LBRACE>> \o Quoted(<<LOWER_B>>) \o <<COLON>>
           [] stop = "value" -> <<LBRACE>> \o Quoted(<<LOWER_B>>) \o <<COLON, DIGIT1>>
           [] stop = "comma" -> <<LBRACE>> \o Quoted(<<LOWER_B>>) \o <<COLON, DIGIT1, COMMA>>
           [] stop = "done" -> <<LBRACE>> \o Quoted(<<LOWER_B>>) \o <<COLON, DIGIT1, RBRACE>>

Chains == {c \in SeqsUpTo(Kinds, MaxDepth) : c # <<>>}

OpenInputs ==
    UNION {{[family |-> "open", ws |-> w, chain |-> c, stop |-> s, after |-> a] :
              w \in {<<>>, <<SPACE, LF>>}, s \in Stops(c[Len(c)]), a \in {<<>>, <<SPACE>>}} :
           c \in Chains}

\* the text before the innermost container
OuterTexts(m) ==
    m.ws \o Concat([i \in 1..(Len(m.chain) - 1) |-> OuterText(m.chain[i])])

\* the closers of the outer containers, the inner ones first
OuterClosers(m) ==
    Concat([i \in 1..(Len(m.chain) - 1) |-> Closer(m.chain[Len(m.chain) - i])])

OpenText(m) ==
    OuterTexts(m) \o InnerText(m.chain[Len(m.chain)], m.stop) \o m.after
    \o (IF m.stop = "done" THEN OuterClosers(m) ELSE <<>>)

HasDigit(b) == \E i \in 1..Len(b) : is_digit(b[i])

\* the state before the first call, on the input b; f: reads of the file may fail
StartWith(b, m, f) ==
    /\ bytes = b
    /\ meta = m
    /\ beyond = NUL
    /\ options \in [buffer_size : {0},
                    parse_options : [number_as_string :
                                        IF HasDigit(b) THEN BOOLEAN ELSE {FALSE}]]
    /\ faults = f
    /\ calls = 0
    /\ entry = "none"
    /\ act = Idle
    /\ results = [e \in {EntryPoints[i] : i \in 1..Len(EntryPoints)} |-> NoResult]
    /\ handles = [opened |-> 0, closed |-> 0]
    /\ walk = NoWalk
    /\ tasks = NoTasks

Start(b, m) == StartWith(b, m, FALSE)

InitBytes ==
    \/ \E b \in SeqsUpTo(Alphabet, MaxLen) : Start(b, [family |-> "bytes"])
    \/ \E b \in SeqsUpTo(Spaces, MaxSpaces) : Start(b, [family |-> "bytes"])

\* ---- family "trailing": a root value, whitespace, and one more byte or none
Roots == {<<DIGIT1>>, Quoted(<<LOWER_A>>), LitNull, <<LBRACKET, RBRACKET>>, <<LBRACE, RBRACE>>}

Junk == {<<>>} \cup {<<c>> : c \in Alphabet \cup {NUL, FF, DEL, 200}}

InitTrailing ==
    \E root \in Roots, ws \in SeqsUpTo(Spaces, MaxSpaces - 1), junk \in Junk :
        Start(root \o ws \o junk,
              [family |-> "trailing", root |-> root, ws |-> ws, junk |-> junk])

InitDocs ==
    \E d \in Docs, sp \in Styles :
        Start(sp \o Serialize(d, sp) \o sp, [family |-> "doc", doc |-> d])

InitStrings == \E m \in StringInputs : Start(StringText(m.ctx, m.items, m.closed), m)

InitUnicode == \E m \in UnicodeInputs : Start(StringText(m.ctx, m.items, m.closed), m)

InitNumbers == \E m \in NumberInputs : Start(m.ctx.pre \o m.lit \o m.ctx.post, m)

InitLiterals == \E m \in LiteralInputs : m.cut <= Len(m.lit) /\ Start(LiteralText(m), m)

InitSpaces == \E m \in SpaceInputs : Start(SpaceText(m), m)

InitUnknown == \E m \in UnknownInputs : Start(UnknownText(m), m)

\* ---- the family "array": '[' and then up to MaxArr tokens: brackets, commas,
\* spaces, the number 1, null and a letter.
MaxArr == 4

ArrTokens == {<<LBRACKET>>, <<RBRACKET>>, <<COMMA>>, <<SPACE>>, <<DIGIT1>>, LitNull, <<LOWER_A>>}

ArrayInputs ==
    {[family |-> "array", toks |-> <<<<LBRACKET>>>> \o ts] : ts \in SeqsUpTo(ArrTokens, MaxArr)}

InitArrays == \E m \in ArrayInputs : Start(Concat(m.toks), m)

\* ---- the family "object": '{' and then up to MaxObj tokens: braces, commas,
\* colons, spaces, the number 1 and the string "a".  With so few tokens no object
\* is given the same key twice.
MaxObj == 5

StrA == Quoted(<<LOWER_A>>)

ObjTokens == {<<LBRACE>>, <<RBRACE>>, <<COMMA>>, <<COLON>>, <<SPACE>>, <<DIGIT1>>, StrA}

ObjectInputs ==
    {[family |-> "object", toks |-> <<<<LBRACE>>>> \o ts] : ts \in SeqsUpTo(ObjTokens, MaxObj)}

InitObjects == \E m \in ObjectInputs : Start(Concat(m.toks), m)

\* ---- the family "dup": an object of two entries, '{' k1 ':1,' k2 ':' v rest,
\* whose second key may decode to the first (written the same way or not) and
\* whose second value is well-formed, malformed or cut off by the end of the input.
KeyToken(text, out) == [text |-> Quoted(text), out |-> out]

DupKeys ==
    {KeyToken(<<LOWER_A>>, <<LOWER_A>>),
     KeyToken(<<BACKSLASH, LOWER_U, DIGIT0, DIGIT0, DIGIT0 + 6, DIGIT1>>, <<LOWER_A>>),
     KeyToken(<<LOWER_B>>, <<LOWER_B>>),
     KeyToken(<<SLASH>>, <<SLASH>>),
     KeyToken(<<BACKSLASH, SLASH>>, <<SLASH>>)}

DupValue(text, kind, what) == [text |-> text, kind |-> kind, what |-> what]

GoodValues ==
    {DupValue(<<DIGIT1 + 1>>, "number", ""),
     DupValue(Quoted(<<LOWER_B>>), "value", ""),
     DupValue(LitNull, "value", ""),
     DupValue(<<LBRACKET, DIGIT1, RBRACKET>>, "value", ""),
     DupValue(<<LBRACE, RBRACE>>, "value", ""),
     DupValue(<<LBRACE>> \o Quoted(<<LOWER_A>>) \o <<COLON, DIGIT1, RBRACE>>, "value", "")}

BadValues ==
    {DupValue(<<LOWER_T, LOWER_R, LOWER_U>>, "bad", "expected a 'true' string at position"),
     DupValue(<<MINUS, LOWER_B>>, "bad", "invalid number starting at position"),
     DupValue(<<LOWER_B>>, "bad", "unknown type starting with"),
     DupValue(<<DIGIT0, DIGIT1>>, "bad", "invalid number starting with 0 at position"),
     DupValue(<<LBRACKET, DIGIT1, SPACE, DIGIT1, RBRACKET>>, "bad",
              "unknown character in array at position"),
     DupValue(<<LBRACE>> \o Quoted(<<LOWER_A>>) \o <<RBRACE>>, "bad",
              "expected ':' to separate keys and values at position"),
     DupValue(Quoted(<<BACKSLASH, LOWER_A>>), "bad", "unrecognized escape")}

CutValues ==
    {DupValue(<<LBRACKET, DIGIT1, COMMA>>, "cut", "unterminated array starting at position"),
     DupValue(<<QUOTE, LOWER_B>>, "cut", "unterminated string at position"),
     DupValue(<<LBRACE>> \o Quoted(<<LOWER_A>>) \o <<COLON>>, "cut",
              "unterminated object starting at position")}

DupRests ==
    {<<RBRACE>>, <<>>, <<COMMA>>, <<SPACE, LOWER_B>>, <<LOWER_B>>, <<SPACE, RBRACE, SPACE>>}

DupInputs ==
    {[family |-> "dup", k1 |-> k1, k2 |-> k2, v |-> v, rest |-> rest] :
        k1 \in DupKeys, k2 \in DupKeys, v \in GoodValues \cup BadValues, rest \in DupRests}
    \cup {[family |-> "dup", k1 |-> k1, k2 |-> k2, v |-> v, rest |-> <<>>] :
            k1 \in DupKeys, k2 \in DupKeys, v \in CutValues}

DupText(m) ==
    <<LBRACE>> \o m.k1.text \o <<COLON, DIGIT1, COMMA>> \o m.k2.text \o <<COLON>>
        \o m.v.text \o m.rest

InitDups == \E m \in DupInputs : Start(DupText(m), m)

\* ---- the family "plain": an integer of up to MaxDigits digits, then maybe a
\* fraction of zeros, then maybe an exponent of zero (after the integer 0, any
\* exponent), alone or as the element of an array.
MaxDigits == 3

PlainDigits == {DIGIT0, DIGIT1, DIGIT0 + 5, DIGIT0 + 9}

IntParts ==
    {ds \in SeqsUpTo(PlainDigits, MaxDigits) : ds # <<>> /\ (ds[1] = DIGIT0 => Len(ds) = 1)}

ZeroFractions == {<<>>, <<DOT, DIGIT0>>, <<DOT, DIGIT0, DIGIT0>>, <<DOT, DIGIT0, DIGIT0, DIGIT0>>}

ZeroExponents ==
    {<<>>, <<LOWER_E, DIGIT0>>, <<UPPER_E, DIGIT0>>, <<LOWER_E, PLUS, DIGIT0>>,
     <<LOWER_E, MINUS, DIGIT0>>, <<UPPER_E, PLUS, DIGIT0, DIGIT0>>}

AnyExponents ==
    {<<UPPER_E, DIGIT0 + 2>>, <<LOWER_E, MINUS, DIGIT0 + 2>>, <<LOWER_E, PLUS, DIGIT1, DIGIT0>>}

PlainShapes == {"root", "spaced", "element"}

PlainInputs ==
    {[family |-> "plain", int |-> ds, frac |-> fr, exp |-> ex, shape |-> sh] :
        ds \in IntParts, fr \in ZeroFractions, ex \in ZeroExponents \cup AnyExponents,
        sh \in PlainShapes}

PlainText(m) ==
    CASE m.shape = "root" -> m.int \o m.frac \o m.exp
      [] m.shape = "spaced" -> <<SPACE>> \o m.int \o m.frac \o m.exp \o <<LF>>
      [] m.shape = "element" -> <<LBRACKET>> \o m.int \o m.frac \o m.exp \o <<RBRACKET>>

InitPlain ==
    \E m \in PlainInputs :
        (m.exp \in AnyExponents => m.int = <<DIGIT0>>) /\ Start(PlainText(m), m)

\* ---- the family "io": a few documents in files whose reads may fail, read with
\* every buffer_size from 0 on.
IODocs ==
    {<<>>, <<DIGIT1>>, <<LBRACKET, DIGIT1, COMMA, DIGIT1, RBRACKET>>,
     <<LBRACE>> \o Quoted(<<LOWER_B>>) \o <<COLON>> \o LitNull \o <<RBRACE>>,
     <<SPACE, LBRACKET, DIGIT1, COMMA>>, <<LBRACKET, DIGIT1, COMMA, LOWER_A, RBRACKET>>,
     Quoted(<<LOWER_A, LOWER_B>>) \o <<SPACE, LF>>}

InitIO == \E d \in IODocs : StartWith(d, [family |-> "io", doc |-> d], TRUE)

InitOpen == \E m \in OpenInputs : Start(OpenText(m), m)

Init ==
    \/ InitBytes \/ InitTrailing \/ InitDocs \/ InitStrings \/ InitUnicode \/ InitNumbers
    \/ InitLiterals \/ InitSpaces \/ InitUnknown \/ InitOpen
    \/ InitIO
    \/ InitPlain
    \/ InitDups
    \/ InitObjects
    \/ InitArrays

Spec == Init /\ [][Next]_vars

SpecBytes == (InitBytes \/ InitTrailing) /\ [][Next]_vars

SpecDocs == InitDocs /\ [][Next]_vars

SpecStrings == InitStrings /\ [][Next]_vars

SpecUnicode == InitUnicode /\ [][Next]_vars

SpecNumbers == InitNumbers /\ [][Next]_vars

SpecLiterals == InitLiterals /\ [][Next]_vars

SpecSpaces == InitSpaces /\ [][Next]_vars

SpecUnknown == InitUnknown /\ [][Next]_vars

SpecOpen == InitOpen /\ [][Next]_vars

SpecIO == InitIO /\ [][Next]_vars


\* values of every kind, well-formed and not, and arbitrary bytes
InitValues == InitStrings \/ InitNumbers \/ InitLiterals \/ InitBytes \/ InitTrailing

SpecValues == InitValues /\ [][Next]_vars

\* The entry points run to their end.  A caller runs its calls one after the
\* other on a processor that does not stop, so a step that can be taken is taken:
\* weak fairness of Next.  A step of Next can be taken exactly until the last
\* entry point has ended (AllDone), which is what stands here for its ENABLED.
AllDone == calls = Len(EntryPoints) /\ entry = "none"

Scheduled == []<>AllDone \/ []<><<Next>>_vars

InitFinite == InitBytes \/ InitTrailing \/ InitArrays \/ InitOpen \/ InitIO

SpecFinite == InitFinite /\ [][Next]_vars /\ Scheduled

SpecPlain == InitPlain /\ [][Next]_vars

SpecDups == InitDups /\ [][Next]_vars

SpecObjects == InitObjects /\ [][Next]_vars

SpecArrays == InitArrays /\ [][Next]_vars

(***************************************************************************)
(* The readers driven by a caller of their own interface: both are         *)
(* constructed over the same bytes, and then advance() is called on both,  *)
(* one call at a time, up to MaxPast calls after the end of the stream.    *)
(***************************************************************************)
MaxFile == 4
MaxPast == 2

\* RawReader(ptr, len) and FileReader(path, buffer_size), the file holding the
\* same bytes; .k counts the calls of advance(), .raw_ok and .file_ok are what
\* the last call returned (valid() at construction)
Constructed(raw, file, buffer_size) ==
    [phase |-> "open", raw |-> raw, file |-> file, buffer_size |-> buffer_size, k |-> 0,
     raw_ok |-> valid(raw), file_ok |-> valid(file)]

Construct ==
    /\ walk.phase = "none"
    /\ \E buffer_size \in 0..MaxBuf, fail_at \in FailAts :
          walk' = Constructed(RawReader(bytes, Len(bytes), NUL),
                              FileReader(bytes, buffer_size, fail_at), buffer_size)
    /\ UNCHANGED <<bytes, beyond, options, faults, meta, calls, entry, act, results, handles,
                   tasks>>

\* input.advance() on both readers; a reader whose read has thrown is left alone
Advanced(w, raw, file) ==
    [w EXCEPT !.raw = raw, !.file = file, !.k = @ + 1,
              !.raw_ok = valid(raw), !.file_ok = valid(file)]

Advance ==
    /\ walk.phase = "open"
    /\ ~walk.file.failed
    /\ walk.k < Len(bytes) + MaxPast
    /\ walk' = Advanced(walk, advance(walk.raw), advance(walk.file))
    /\ UNCHANGED <<bytes, beyond, options, faults, meta, calls, entry, act, results, handles,
                   tasks>>

NextWalk == Construct \/ Advance

InitWalk ==
    \E b \in SeqsUpTo({LOWER_A, LOWER_B}, MaxFile) : StartWith(b, [family |-> "walk"], TRUE)

SpecWalk == InitWalk /\ [][NextWalk]_vars

(***************************************************************************)
(* FileReader::check_buffer_size called by itself, as the test of          *)
(* part_003 calls it, on sizes next to 0 and next to the maximum.          *)
(***************************************************************************)
MaxSize == 60

SizesTried == (0..MaxSize) \cup {max_size - k : k \in 0..MaxSize}

CheckBufferSize ==
    /\ meta.family = "size"
    /\ walk.phase = "none"
    /\ walk' = [phase |-> "sized", size |-> check_buffer_size(meta.n)]
    /\ UNCHANGED <<bytes, beyond, options, faults, meta, calls, entry, act, results, handles,
                   tasks>>

NextSizes == CheckBufferSize

InitSizes == \E n \in SizesTried : StartWith(<<>>, [family |-> "size", n |-> n], FALSE)

SpecSizes == InitSizes /\ [][NextSizes]_vars

(***************************************************************************)
(* Several parses at the same time: each caller has its own array, makes   *)
(* its own RawReader on it and runs parse_internal, whose state is its     *)
(* locals; the scheduler lets any of them take the next step.              *)
(***************************************************************************)
MaxTasks == 2

TaskDocs ==
    {<<LBRACKET, DIGIT1, COMMA, DIGIT0, RBRACKET>>,
     <<LBRACE>> \o Quoted(<<LOWER_A>>) \o <<COLON, LBRACKET>> \o LitNull \o <<RBRACKET, RBRACE>>,
     <<SPACE, LBRACKET>> \o LitTrue \o <<COMMA>>,
     <<LBRACKET, LBRACKET, LOWER_A>>,
     <<LBRACKET>> \o Quoted(<<LOWER_B>>) \o <<COMMA, QUOTE>>}

TaskEntries == {"parse_string", "validate_string"}

ProvisionerOf(e) == IF e = "parse_string" THEN "Default" ELSE "Fake"

\* the call of entry point e on the array b (with the byte bey after it)
Begun(e, b, bey, opts) ==
    [entry |-> e, bytes |-> b, beyond |-> bey, options |-> opts,
     act |-> parse_begin(ProvisionerOf(e), RawReader(b, Len(b), bey), opts)]

\* a step writes the locals of one activation and, were there any, what all of them share
Stepped_sharing_output(ts, i) ==
    [j \in 1..Len(ts) |->
        IF j = i THEN [ts[j] EXCEPT !.act = parse_step(@)]
        ELSE IF Live(ts[j].act) THEN [ts[j] EXCEPT !.act.output = parse_step(ts[i].act).output]
        ELSE ts[j]]

\* a step of the i-th parse writes the locals of its own activation only
Stepped(ts, i) == [ts EXCEPT ![i].act = parse_step(@)]

Spawn ==
    /\ meta.family = "tasks"
    /\ Len(tasks) < MaxTasks
    /\ \E e \in TaskEntries, b \in TaskDocs, opts \in [number_as_string : BOOLEAN] :
          \E bey \in BeyondFor(b) : tasks' = Append(tasks, Begun(e, b, bey, opts))
    /\ UNCHANGED <<bytes, beyond, options, faults, meta, calls, entry, act, results, handles, walk>>

Step ==
    /\ \E i \in 1..Len(tasks) :
          /\ Live(tasks[i].act)
          /\ tasks' = Stepped(tasks, i)
    /\ UNCHANGED <<bytes, beyond, options, faults, meta, calls, entry, act, results, handles, walk>>

NextTasks == Spawn \/ Step

InitTasks == StartWith(<<>>, [family |-> "tasks"], FALSE)

SpecTasks == InitTasks /\ [][NextTasks]_vars

(***************************************************************************)
(* Properties.  What an input means is computed here from how the input    *)
(* was put together (meta), never by the reader or the decoders above.     *)
(***************************************************************************)
Entries == {EntryPoints[i] : i \in 1..Len(EntryPoints)}

Parsers == {"parse_string", "parse_file"}

Done(e) == results[e].status # "none"

Succeeded(e) == results[e].status = "ok"

FailedWith(e, what) == results[e].status = "error" /\ results[e].err.what = what

\* the same success with the same type tag, or the same error
SameOutcome(x, y) == x.status = y.status /\ x.err = y.err /\ x.type = y.type

OnlySpaces(b) == \A i \in 1..Len(b) : b[i] \in Spaces

\* C1: validate and parse, run on the same input with the same options, end the
\* same way: both succeed and validate returns the type tag of the root that
\* parse built, or both fail with the same error.
ValidateMatchesParse ==
    /\ Done("validate_string") =>
          SameOutcome(results["parse_string"], results["validate_string"])
    /\ Done("validate_file") =>
          SameOutcome(results["parse_file"], results["validate_file"])

\* the one-byte input that is a quote, parsed by the memory reader, which found a
\* quote after the array, and refused by validation, which found a NUL there
ValidateDiffersWitness ==
    /\ bytes = <<QUOTE>>
    /\ Succeeded("parse_string")
    /\ results["parse_string"].type = "STRING"
    /\ results["validate_string"].status = "error"

\* C2: streaming equivalence: parse_file, at whatever buffer size, succeeds
\* exactly when parse_string succeeds on the same bytes, and then the two trees
\* are equal.
StreamingEquivalence ==
    Done("parse_file") =>
        /\ results["parse_file"].status = results["parse_string"].status
        /\ results["parse_file"].type = results["parse_string"].type
        /\ results["parse_file"].value = results["parse_string"].value

\* the file that holds one quote, read with a buffer of one byte: parse_file returns
\* the empty string, parse_string on the C string of the same byte throws
StreamingDiffersWitness ==
    /\ bytes = <<QUOTE>>
    /\ beyond = NUL
    /\ options.buffer_size = 1
    /\ results["parse_string"].status = "error"
    /\ Succeeded("parse_file")
    /\ results["parse_file"].value = [type |-> "STRING", value |-> <<>>]

\* ---- what a document of the family "doc" stands for
ScalarValue(text, number_as_string) ==
    IF text = <<DIGIT1>>
    THEN IF number_as_string THEN [type |-> "NUMBER_AS_STRING", value |-> <<DIGIT1>>]
         ELSE [type |-> "NUMBER", value |-> [m |-> 1, e |-> 0]]
    ELSE IF text = LitTrue THEN [type |-> "BOOLEAN", value |-> TRUE]
    ELSE [type |-> "STRING", value |-> SubSeq(text, 2, Len(text) - 1)]

EntryKeys(entries) == {entries[i].key : i \in 1..Len(entries)}

RECURSIVE ToValue(_, _)
ToValue(d, nas) ==
    CASE d.kind = "scalar" -> ScalarValue(d.text, nas)
      [] d.kind = "array" ->
            [type |-> "ARRAY",
             value |-> [i \in 1..Len(d.items) |-> ToValue(d.items[i], nas)]]
      [] d.kind = "object" ->
            [type |-> "OBJECT",
             value |-> [k \in EntryKeys(d.entries) |->
                          ToValue(d.entries[CHOOSE i \in 1..Len(d.entries) :
                                                d.entries[i].key = k].value, nas)]]

\* some object of the document, at whatever depth, has the same key twice
RECURSIVE HasDup(_)
HasDup(d) ==
    CASE d.kind = "scalar" -> FALSE
      [] d.kind = "array" -> \E i \in 1..Len(d.items) : HasDup(d.items[i])
      [] d.kind = "object" ->
            \/ \E i, j \in 1..Len(d.entries) : i < j /\ d.entries[i].key = d.entries[j].key
            \/ \E i \in 1..Len(d.entries) : HasDup(d.entries[i].value)

\* every object of the tree v has exactly one entry per key of the document's
\* object it was parsed from
RECURSIVE ObjectsMatch(_, _)
ObjectsMatch(d, v) ==
    CASE d.kind = "scalar" -> TRUE
      [] d.kind = "array" ->
            /\ v.type = "ARRAY"
            /\ Len(v.value) = Len(d.items)
            /\ \A i \in 1..Len(d.items) : ObjectsMatch(d.items[i], v.value[i])
      [] d.kind = "object" ->
            /\ v.type = "OBJECT"
            /\ DOMAIN v.value = EntryKeys(d.entries)
            /\ Cardinality(DOMAIN v.value) = Len(d.entries)
            /\ \A i \in 1..Len(d.entries) :
                  ObjectsMatch(d.entries[i].value, v.value[d.entries[i].key])

\* C3: a document in which some object, at any depth, has a key twice makes
\* every entry point fail with the duplicate keys error; a document whose
\* objects all have distinct keys parses to mappings with one entry per key.
DuplicateKeysRejected ==
    meta.family = "doc" =>
        \A e \in Entries :
            Done(e) =>
                IF HasDup(meta.doc)
                THEN FailedWith(e, "detected duplicate keys in the object at position")
                ELSE /\ Succeeded(e)
                     /\ e \in Parsers => ObjectsMatch(meta.doc, results[e].value)

DuplicateKeysWitness ==
    /\ meta.family = "doc"
    /\ meta.doc.kind = "array"
    /\ HasDup(meta.doc)
    /\ FailedWith("validate_file", "detected duplicate keys in the object at position")

\* C4: a well-formed document parses to the tree it stands for: every array of
\* it, at any depth, holds the values of its elements, in the order of the text.
ArrayOrderPreserved ==
    (meta.family = "doc" /\ ~HasDup(meta.doc)) =>
        \A e \in Parsers :
            Done(e) =>
                /\ Succeeded(e)
                /\ results[e].value =
                      ToValue(meta.doc, options.parse_options.number_as_string)

ArrayOrderWitness ==
    /\ meta.family = "doc"
    /\ meta.doc.kind = "array"
    /\ Len(meta.doc.items) = 2
    /\ meta.doc.items[1].kind = "array"
    /\ meta.doc.items[2].kind = "scalar"
    /\ Succeeded("parse_file")

\* C6: an input that is empty, or holds only space, tab, CR and LF, makes
\* every entry point, of the memory reader and of the file reader, fail with
\* the no contents error.
NoContentsRejected ==
    OnlySpaces(bytes) =>
        \A e \in Entries :
            Done(e) => /\ results[e].status = "error"
                       /\ results[e].err = ErrMsg("invalid JSON with no contents")

NoContentsWitness ==
    /\ Len(bytes) = 2
    /\ OnlySpaces(bytes)
    /\ bytes[1] # bytes[2]
    /\ Done("validate_file")
    /\ options.buffer_size = 1

\* the index of the first byte of b, from index from on, that is no whitespace;
\* 0 when there is none
FirstNonSpace(b, from) ==
    IF \E i \in from..Len(b) : b[i] \notin Spaces
    THEN CHOOSE i \in from..Len(b) :
            b[i] \notin Spaces /\ \A j \in from..(i - 1) : b[j] \in Spaces
    ELSE 0

\* C5: once the root value is produced and no frame is left, a byte that is no
\* whitespace among the rest of the input makes the entry point fail with the
\* trailing characters error at the 1-based position of the first such byte;
\* when the rest is whitespace only, the entry point returns.
TrailingCharactersRejected ==
    [][act.pc = "finish" =>
          /\ act.stack = <<>>
          /\ IF FirstNonSpace(bytes, position(act.input) + 1) # 0
             THEN /\ act'.pc = "thrown"
                  /\ results'[entry].status = "error"
                  /\ results'[entry].err =
                        ErrAt("invalid JSON with trailing non-space characters at position",
                              FirstNonSpace(bytes, position(act.input) + 1))
             ELSE /\ act'.pc = "returned"
                  /\ results'[entry].status = "ok"
                  /\ results'[entry].type = act.output.type]_vars

TrailingCharactersWitness ==
    /\ meta.family = "trailing"
    /\ Len(meta.ws) = 2
    /\ meta.junk # <<>>
    /\ results["parse_file"].status = "error"
    /\ results["parse_file"].err =
          ErrAt("invalid JSON with trailing non-space characters at position", Len(bytes))

\* the containers that a prefix of a document leaves open, outermost first
RECURSIVE OpenContainers(_, _, _)
OpenContainers(s, mode, open) ==
    IF s = <<>> THEN open
    ELSE CASE mode = "escape" -> OpenContainers(Tail(s), "string", open)
           [] mode = "string" ->
                 OpenContainers(Tail(s),
                                IF Head(s) = BACKSLASH THEN "escape"
                                ELSE IF Head(s) = QUOTE THEN "text" ELSE "string",
                                open)
           [] mode = "text" ->
                 OpenContainers(Tail(s),
                                IF Head(s) = QUOTE THEN "string" ELSE "text",
                                IF Head(s) = LBRACKET THEN Append(open, "ARRAY")
                                ELSE IF Head(s) = LBRACE THEN Append(open, "OBJECT")
                                ELSE IF Head(s) \in {RBRACKET, RBRACE}
                                THEN SubSeq(open, 1, Len(open) - 1)
                                ELSE open)

Consumed(input) == SubSeq(bytes, 1, Min(position(input), Len(bytes)))

BadTokens(items) == {i \in 1..Len(items) : items[i].kind \in {"control", "bad_escape"}}

\* the index of the first token that the decoder must refuse; 0 when there is none
FirstBad(items) ==
    IF BadTokens(items) = {} THEN 0
    ELSE CHOOSE i \in BadTokens(items) : \A j \in BadTokens(items) : i <= j

\* the 1-based offset in the stream of the first byte of token i
TokenOffset(m, i) == Len(m.ctx.pre) + 1 + Len(TokenBytes(SubSeq(m.items, 1, i - 1))) + 1

\* the text that the literal decodes to
DecodedText(items) == Concat([i \in 1..Len(items) |-> items[i].out])

\* the text found in the tree v where the context has put the literal
TextIn(ctx, v) ==
    CASE ctx.name \in {"root", "spaced"} -> v.value
      [] ctx.name = "element" -> v.value[2].value
      [] ctx.name = "key" -> CHOOSE k \in DOMAIN v.value : TRUE
      [] ctx.name = "member" -> v.value[<<LOWER_B>>].value

\* C8: a string whose opening quote is not matched by a closing quote before the
\* end of the input, the quote being the last byte or not, and the input ending
\* inside an escape or not, makes every entry point fail with the unterminated
\* string error.
UnterminatedStringRejected ==
    (meta.family = "string" /\ ~meta.closed /\ FirstBad(meta.items) = 0) =>
        \A e \in Entries : Done(e) => FailedWith(e, "unterminated string at position")

\* the input that is an opening quote and nothing more, in a file read with a
\* buffer of one byte: both file entry points return
UnterminatedStringWitness ==
    /\ meta.family = "string"
    /\ meta.ctx.name = "root"
    /\ meta.items = <<>>
    /\ ~meta.closed
    /\ options.buffer_size = 1
    /\ Succeeded("parse_file")
    /\ Succeeded("validate_file")
    /\ results["validate_file"].type = "STRING"

\* C9: a control character (0x00-0x1F, 0x7F) written raw between the quotes of a
\* string, a value or a key, makes every entry point fail with the control
\* character error at the 1-based offset of that byte in the stream.
ControlCharacterRejected ==
    (/\ meta.family = "string"
     /\ FirstBad(meta.items) # 0
     /\ meta.items[FirstBad(meta.items)].kind = "control") =>
        \A e \in Entries :
            Done(e) =>
                /\ results[e].status = "error"
                /\ results[e].err =
                      ErrAt("string contains ASCII control character at position",
                            TokenOffset(meta, FirstBad(meta.items)))

ControlCharacterWitness ==
    /\ meta.family = "string"
    /\ meta.ctx.name = "key"
    /\ Len(meta.items) = 2
    /\ meta.items[1].kind = "escape"
    /\ meta.items[2] = ByteToken(DEL)
    /\ options.buffer_size = 2
    /\ Done("validate_file")

\* C10: each of the eight escapes \" \\ \/ \b \f \n \r \t adds the one byte it
\* stands for to the decoded text; a backslash before any byte but those eight
\* and u makes every entry point fail with the unrecognized escape error.
EscapesDecoded ==
    meta.family = "string" =>
        \A e \in Entries :
            Done(e) =>
                /\ (FirstBad(meta.items) = 0 /\ meta.closed) =>
                      /\ Succeeded(e)
                      /\ e \in Parsers =>
                            TextIn(meta.ctx, results[e].value) = DecodedText(meta.items)
                /\ (/\ FirstBad(meta.items) # 0
                    /\ meta.items[FirstBad(meta.items)].kind = "bad_escape") =>
                      /\ results[e].status = "error"
                      /\ results[e].err =
                            ErrChar("unrecognized escape",
                                    meta.items[FirstBad(meta.items)].bytes[2])

EscapesDecodedWitness ==
    /\ meta.family = "string"
    /\ meta.ctx.name = "member"
    /\ meta.closed
    /\ Len(meta.items) = 2
    /\ meta.items[1].kind = "escape"
    /\ meta.items[2].kind = "escape"
    /\ meta.items[1] # meta.items[2]
    /\ Succeeded("parse_file")

\* C11: a \u escape of four hex digits, in either case, adds the UTF-8 encoding
\* of the 16-bit value it denotes (1, 2 or 3 bytes), each escape by itself, a
\* surrogate half too; a byte that is no hex digit among the four makes every
\* entry point fail with the invalid unicode escape error.
UnicodeEscapesEncoded ==
    meta.family = "unicode" =>
        \A e \in Entries :
            Done(e) =>
                IF \E i \in 1..Len(meta.items) : meta.items[i].kind = "bad_unicode"
                THEN FailedWith(e, "invalid unicode escape detected at position")
                ELSE /\ Succeeded(e)
                     /\ e \in Parsers =>
                           TextIn(meta.ctx, results[e].value) = DecodedText(meta.items)

\* two surrogate halves in a row, parsed from a file: six bytes
UnicodeEscapesWitness ==
    /\ meta.family = "unicode"
    /\ Len(meta.items) = 2
    /\ meta.items[1] = UnicodeToken(55357, "upper")
    /\ meta.items[2] = UnicodeToken(56832, "lower")
    /\ Succeeded("parse_file")
    /\ Len(TextIn(meta.ctx, results["parse_file"].value)) = 6

\* ---- the family "number": the grammar of JSON numbers as a scanner.  The states:
\* "start", "minus" (after the sign), "zero" (after a leading 0), "int", "dot",
\* "frac", "e" (after e or E), "esign" (after the sign of the exponent), "exp";
\* "fail" when the character cannot follow.
IsDigitChar(c) == c >= DIGIT0 /\ c <= DIGIT0 + 9

NumNext(state, c) ==
    CASE state \in {"start", "minus"} ->
            (IF c = DIGIT0 THEN "zero"
             ELSE IF IsDigitChar(c) THEN "int"
             ELSE IF c = MINUS /\ state = "start" THEN "minus" ELSE "fail")
      [] state = "zero" ->
            (IF c = DOT THEN "dot" ELSE IF c \in {LOWER_E, UPPER_E} THEN "e" ELSE "fail")
      [] state = "int" ->
            (IF IsDigitChar(c) THEN "int" ELSE IF c = DOT THEN "dot"
             ELSE IF c \in {LOWER_E, UPPER_E} THEN "e" ELSE "fail")
      [] state = "dot" -> (IF IsDigitChar(c) THEN "frac" ELSE "fail")
      [] state = "frac" ->
            (IF IsDigitChar(c) THEN "frac" ELSE IF c \in {LOWER_E, UPPER_E} THEN "e" ELSE "fail")
      [] state = "e" ->
            (IF c \in {PLUS, MINUS} THEN "esign" ELSE IF IsDigitChar(c) THEN "exp" ELSE "fail")
      [] state \in {"esign", "exp"} -> (IF IsDigitChar(c) THEN "exp" ELSE "fail")

\* the scan from character i on, in a state that has not failed: where the
\* literal leaves the grammar (at = 0 if nowhere) and the last state before that
RECURSIVE NumScanFrom(_, _, _)
NumScanFrom(lit, i, state) ==
    IF i > Len(lit) THEN [at |-> 0, state |-> state]
    ELSE IF NumNext(state, lit[i]) = "fail" THEN [at |-> i, state |-> state]
    ELSE NumScanFrom(lit, i + 1, NumNext(state, lit[i]))

\* the index of the character at which the literal leaves the grammar; 0 if none
NumFailAt(lit) == NumScanFrom(lit, 1, "start").at

\* the state in which the literal is left: at its end, or before the character
\* that cannot follow
NumLeftIn(lit) == NumScanFrom(lit, 1, "start").state

NumAccepted(lit) == NumFailAt(lit) = 0 /\ NumLeftIn(lit) \in {"zero", "int", "frac", "exp"}

\* the literal runs to the end of the input
NumAtEnd(m) == NumFailAt(m.lit) = 0 /\ m.ctx.post = <<>>

\* C12: a 0 that starts the magnitude of a number may be followed by '.', 'e',
\* 'E', a terminator or the end of the input, and then it raises no leading zero
\* error; followed by any other byte it makes every entry point fail with the
\* number starting with 0 error, whether numbers are kept as text or not.
LeadingZeroRule ==
    meta.family = "number" =>
        \A e \in Entries :
            Done(e) =>
                (FailedWith(e, "invalid number starting with 0 at position")
                    <=> (NumFailAt(meta.lit) # 0 /\ NumLeftIn(meta.lit) = "zero"))

\* -01 in an array, numbers kept as text
LeadingZeroWitness ==
    /\ meta.family = "number"
    /\ meta.ctx.name = "element"
    /\ meta.lit = <<MINUS, DIGIT0, DIGIT1>>
    /\ options.parse_options.number_as_string
    /\ FailedWith("validate_file", "invalid number starting with 0 at position")

\* C13: in a number, a '.' is followed by a digit.  When the input ends after the
\* '.', every entry point fails with the trailing '.' error; when a terminator,
\* an 'e' or 'E', or any other byte that is no digit follows it, every entry
\* point fails with the "'.' must be followed by at least one digit" error; and
\* neither error is raised for a '.' that a digit follows.
FractionNeedsDigit ==
    meta.family = "number" =>
        \A e \in Entries :
            Done(e) =>
                /\ FailedWith(e, "invalid number with trailing '.' at position")
                      <=> (NumLeftIn(meta.lit) = "dot" /\ NumAtEnd(meta))
                /\ FailedWith(e, "'.' must be followed by at least one digit at position")
                      <=> (NumLeftIn(meta.lit) = "dot" /\ ~NumAtEnd(meta))

\* 1.e between spaces: the byte after the '.' is an 'e'
FractionNeedsDigitWitness ==
    /\ meta.family = "number"
    /\ meta.ctx.name = "space"
    /\ meta.lit = <<DIGIT1, DOT, LOWER_E>>
    /\ FailedWith("parse_string", "'.' must be followed by at least one digit at position")

\* C14: in a number, 'e' or 'E' is followed by at most one sign and then by a
\* digit.  The end of the input after the 'e' or after the sign, a byte after the
\* 'e' that is neither a sign nor a digit, and a byte after the sign that is no
\* digit (a second sign among them) each make every entry point fail, with the
\* error of the code for that case; a well-formed exponent raises none of them.
ExponentNeedsDigit ==
    meta.family = "number" =>
        \A e \in Entries :
            Done(e) =>
                /\ FailedWith(e, "invalid number with trailing 'e/E' at position")
                      <=> (NumLeftIn(meta.lit) = "e" /\ NumAtEnd(meta))
                /\ FailedWith(e, "'e/E' should be followed by a sign or digit in number at position")
                      <=> (NumLeftIn(meta.lit) = "e" /\ ~NumAtEnd(meta))
                /\ FailedWith(e, "invalid number with trailing exponent sign at position")
                      <=> (NumLeftIn(meta.lit) = "esign" /\ NumAtEnd(meta))
                /\ FailedWith(e, "exponent sign must be followed by at least one digit in number at position")
                      <=> (NumLeftIn(meta.lit) = "esign" /\ ~NumAtEnd(meta))
                /\ NumLeftIn(meta.lit) \in {"e", "esign"} => ~Succeeded(e)

\* 1e+- at the end of the input: a second sign after the sign
ExponentNeedsDigitWitness ==
    /\ meta.family = "number"
    /\ meta.ctx.name = "end"
    /\ meta.lit = <<DIGIT1, LOWER_E, PLUS, MINUS>>
    /\ FailedWith("validate_string",
                  "exponent sign must be followed by at least one digit in number at position")

\* the 1-based position in the stream of character i of the literal
NumCharPosition(m, i) == Len(m.ctx.pre) + i

\* C15: a numeric literal ends only at ',' ']' '}' space tab CR LF or the end of
\* the input; any other byte that cannot follow the digits of the integer part,
\* of the fraction or of the exponent makes every entry point fail with an error
\* that names that byte and reports the 1-based position of that byte.
NumberErrorNamesCharacter ==
    (/\ meta.family = "number"
     /\ NumFailAt(meta.lit) # 0
     /\ NumLeftIn(meta.lit) \in {"int", "frac", "exp"}) =>
        \A e \in Entries :
            Done(e) =>
                /\ results[e].status = "error"
                /\ results[e].err.ch = meta.lit[NumFailAt(meta.lit)]
                /\ results[e].err.pos = NumCharPosition(meta, NumFailAt(meta.lit))

\* what the decoder does there: the error names the byte and reports the position
\* of the first digit of the number (line 475)
NumberErrorReportsStart ==
    (/\ meta.family = "number"
     /\ NumFailAt(meta.lit) # 0
     /\ NumLeftIn(meta.lit) \in {"int", "frac", "exp"}) =>
        \A e \in Entries :
            Done(e) =>
                /\ FailedWith(e, "invalid number containing")
                /\ results[e].err.ch = meta.lit[NumFailAt(meta.lit)]
                /\ results[e].err.pos =
                      NumCharPosition(meta, IF meta.lit[1] = MINUS THEN 2 ELSE 1)

\* 10a at the root: the error names the 'a', which is byte 3, and reports 1, the
\* position of the first digit
NumberErrorWitness ==
    /\ meta.family = "number"
    /\ meta.ctx.name = "end"
    /\ meta.lit = <<DIGIT1, DIGIT0, LOWER_A>>
    /\ FailedWith("parse_string", "invalid number containing")
    /\ results["parse_string"].err.ch = LOWER_A
    /\ results["parse_string"].err.pos = 1

\* the node of the tree v that the context has made of the literal
NumIn(ctx, v) ==
    CASE ctx.name \in {"end", "space", "tab", "cr", "lf"} -> v
      [] ctx.name \in {"element", "first"} -> v.value[1]
      [] ctx.name = "member" -> v.value[<<LOWER_B>>]

\* C16: with number_as_string set, every accepted numeric literal, with or
\* without '-', fraction, exponent and sign of the exponent, is stored as a
\* NumberAsString whose text is the literal byte for byte, from its first byte
\* up to the terminator.
NumberTextVerbatim ==
    (/\ meta.family = "number"
     /\ options.parse_options.number_as_string
     /\ NumAccepted(meta.lit)) =>
        \A e \in Parsers :
            Done(e) =>
                /\ Succeeded(e)
                /\ NumIn(meta.ctx, results[e].value).type = "NUMBER_AS_STRING"
                /\ NumIn(meta.ctx, results[e].value).value = meta.lit

\* the literal without the '+' of its exponent
WithoutPlus(lit) == SelectSeq(lit, LAMBDA c : c # PLUS)

\* what the decoder does: the text is the literal except for the '+' of the
\* exponent, which line 605 skips without appending it
NumberTextDropsPlus ==
    (/\ meta.family = "number"
     /\ options.parse_options.number_as_string
     /\ NumAccepted(meta.lit)) =>
        \A e \in Parsers :
            Done(e) =>
                /\ Succeeded(e)
                /\ NumIn(meta.ctx, results[e].value).type = "NUMBER_AS_STRING"
                /\ NumIn(meta.ctx, results[e].value).value = WithoutPlus(meta.lit)

\* -1e+1 as the value of an object member: the text stored is -1e1
NumberTextWitness ==
    /\ meta.family = "number"
    /\ meta.ctx.name = "member"
    /\ meta.lit = <<MINUS, DIGIT1, LOWER_E, PLUS, DIGIT1>>
    /\ options.parse_options.number_as_string
    /\ Succeeded("parse_file")
    /\ NumIn(meta.ctx, results["parse_file"].value).value = <<MINUS, DIGIT1, LOWER_E, DIGIT1>>

\* the node of the tree v that the context has made of the value
NodeIn(ctx, v) ==
    CASE ctx.name \in {"root", "spaced"} -> v
      [] ctx.name = "element" -> v.value[2]
      [] ctx.name = "member" -> v.value[<<LOWER_B>>]

ExpectedMessage(lit) ==
    CASE lit = LitTrue -> "expected a 'true' string at position"
      [] lit = LitFalse -> "expected a 'false' string at position"
      [] lit = LitNull -> "expected a 'null' string at position"

ExpectedMessages == {ExpectedMessage(lit) : lit \in Literals}

LiteralTag(lit) == IF lit = LitNull THEN "NOTHING" ELSE "BOOLEAN"

\* the node is the value of the literal
IsLiteralValue(node, lit) ==
    /\ node.type = LiteralTag(lit)
    /\ lit # LitNull => node.value = (lit = LitTrue)

\* the characters that close the context's container or go on in it
Closers(ctx) ==
    CASE ctx.name = "element" -> {COMMA, RBRACKET}
      [] ctx.name = "member" -> {COMMA, RBRACE}
      [] OTHER -> {}

\* the 1-based position of the byte after the literal
AfterLiteral(m) == Len(m.ctx.pre) + Len(m.lit) + 1

\* C17: a value that starts with t, f or n is accepted only if the bytes that
\* follow spell true, false or null.  A text that ends inside the literal, or
\* leaves it, makes every entry point fail with the error that names the
\* expected literal.  A literal spelled in full is accepted, and the cursor is
\* then on the byte after it: at the root a further byte that is no whitespace
\* is reported as trailing characters at its position, and in a container a byte
\* that neither closes nor continues the container as an unknown character at
\* its position.
LiteralsSpelledExactly ==
    meta.family = "literal" =>
        \A e \in Entries :
            Done(e) =>
                IF meta.cut < Len(meta.lit)
                THEN FailedWith(e, ExpectedMessage(meta.lit))
                ELSE /\ results[e].status = "error" => results[e].err.what \notin ExpectedMessages
                     /\ (meta.tail = <<>> \/ meta.tail[1] \in Spaces) =>
                            /\ Succeeded(e)
                            /\ e \in Parsers =>
                                  IsLiteralValue(NodeIn(meta.ctx, results[e].value), meta.lit)
                     /\ (meta.tail # <<>> /\ meta.tail[1] \notin Spaces) =>
                            /\ results[e].status = "error"
                            /\ meta.ctx.name \in {"root", "spaced"} =>
                                  /\ results[e].err.what =
                                      "invalid JSON with trailing non-space characters at position"
                                  /\ results[e].err.pos = AfterLiteral(meta)
                            /\ (/\ meta.ctx.name \in {"element", "member"}
                                /\ meta.tail[1] \notin Closers(meta.ctx)) =>
                                  /\ results[e].err.what = "unknown character in array at position"
                                  /\ results[e].err.ch = meta.tail[1]
                                  /\ results[e].err.pos = AfterLiteral(meta)

\* falsE at the root: the literal is left at its fifth byte
LiteralsSpelledWitness ==
    /\ meta.family = "literal"
    /\ meta.ctx.name = "root"
    /\ meta.lit = LitFalse
    /\ meta.cut = 4
    /\ meta.tail = <<UPPER_E>>
    /\ FailedWith("validate_file", "expected a 'false' string at position")

\* ---- the value of a literal of the grammar, from its digits
\* the index of the 'e' or 'E' of the literal; 0 if it has none
ExponentAt(lit) ==
    IF \E i \in 1..Len(lit) : lit[i] \in {LOWER_E, UPPER_E}
    THEN CHOOSE i \in 1..Len(lit) : lit[i] \in {LOWER_E, UPPER_E}
    ELSE 0

\* the integer that the digits of s spell, the other characters passed over
RECURSIVE DigitsValue(_)
DigitsValue(s) ==
    IF s = <<>> THEN 0
    ELSE IF IsDigitChar(s[Len(s)])
    THEN 10 * DigitsValue(SubSeq(s, 1, Len(s) - 1)) + (s[Len(s)] - DIGIT0)
    ELSE DigitsValue(SubSeq(s, 1, Len(s) - 1))

\* integer part and fraction
Mantissa(lit) == IF ExponentAt(lit) = 0 THEN lit ELSE SubSeq(lit, 1, ExponentAt(lit) - 1)

\* the number of digits of the fraction
FractionDigits(s) ==
    IF \E i \in 1..Len(s) : s[i] = DOT THEN Len(s) - (CHOOSE i \in 1..Len(s) : s[i] = DOT)
    ELSE 0

\* sign and digits of the exponent
ExponentPart(lit) ==
    IF ExponentAt(lit) = 0 THEN <<>> ELSE SubSeq(lit, ExponentAt(lit) + 1, Len(lit))

ExponentValue(s) ==
    IF s # <<>> /\ s[1] = MINUS THEN 0 - DigitsValue(s) ELSE DigitsValue(s)

\* the value of the unsigned literal mag, as a decimal
MagnitudeValue(mag) ==
    DecNorm(DigitsValue(Mantissa(mag)),
            ExponentValue(ExponentPart(mag)) - FractionDigits(Mantissa(mag)))

\* the literal starts with '-', and after the '-' stops or has no digit
MinusAlone(m) == m.lit[1] = MINUS /\ (Len(m.lit) = 1 \/ ~IsDigitChar(m.lit[2]))

\* C18: a '-' at the start of a value is followed by a digit: at the end of the
\* input it makes every entry point fail with the incomplete number error, and
\* followed by any byte that is no digit with the invalid number error;
\* otherwise the value is the negated magnitude, or in string mode the text of
\* the magnitude after a '-'.
MinusNeedsDigit ==
    meta.family = "number" =>
        \A e \in Entries :
            Done(e) =>
                /\ FailedWith(e, "incomplete number starting at position")
                      <=> (meta.lit = <<MINUS>> /\ meta.ctx.post = <<>>)
                /\ FailedWith(e, "invalid number starting at position")
                      <=> (MinusAlone(meta) /\ ~(meta.lit = <<MINUS>> /\ meta.ctx.post = <<>>))
                /\ (meta.lit[1] = MINUS /\ NumAccepted(meta.lit)) =>
                      /\ Succeeded(e)
                      /\ (e \in Parsers /\ options.parse_options.number_as_string) =>
                            /\ NumIn(meta.ctx, results[e].value).type = "NUMBER_AS_STRING"
                            /\ NumIn(meta.ctx, results[e].value).value
                                  = <<MINUS>> \o WithoutPlus(Tail(meta.lit))
                      /\ (e \in Parsers /\ ~options.parse_options.number_as_string) =>
                            /\ NumIn(meta.ctx, results[e].value).type = "NUMBER"
                            /\ NumIn(meta.ctx, results[e].value).value
                                  = DecNeg(MagnitudeValue(Tail(meta.lit)))

\* -10.51 as the first element of an array, in numeric mode
MinusNeedsDigitWitness ==
    /\ meta.family = "number"
    /\ meta.ctx.name = "first"
    /\ meta.lit = <<MINUS, DIGIT1, DIGIT0, DOT, DIGIT0 + 5, DIGIT1>>
    /\ ~options.parse_options.number_as_string
    /\ Succeeded("parse_string")
    /\ NumIn(meta.ctx, results["parse_string"].value).value = [m |-> -1051, e |-> -2]

\* the tree of [1,{"b":true}]
IsSpacedTree(v, as_string) ==
    /\ v.type = "ARRAY"
    /\ Len(v.value) = 2
    /\ v.value[1].type = (IF as_string THEN "NUMBER_AS_STRING" ELSE "NUMBER")
    /\ v.value[1].value = (IF as_string THEN <<DIGIT1>> ELSE DecInt(1))
    /\ v.value[2].type = "OBJECT"
    /\ DOMAIN v.value[2].value = {<<LOWER_B>>}
    /\ v.value[2].value[<<LOWER_B>>].type = "BOOLEAN"
    /\ v.value[2].value[<<LOWER_B>>].value = TRUE

\* the first byte of b that is none of space, tab, CR, LF
FirstOther(b) == b[CHOOSE i \in 1..Len(b) : b[i] \notin Spaces /\ OnlySpaces(SubSeq(b, 1, i - 1))]

\* C19: space, tab, CR and LF, and no other byte, are skipped wherever whitespace
\* may stand: before and after the root, and around ',' ':' and the brackets.
\* Runs of the four leave the document as it is; any other byte there, the
\* vertical tab and the form feed among them, is not skipped: every entry point
\* fails, and an error that names a character names that byte.
OnlyFourSpaces ==
    meta.family = "space" =>
        \A e \in Entries :
            Done(e) =>
                IF OnlySpaces(meta.fill)
                THEN /\ Succeeded(e)
                     /\ results[e].type = "ARRAY"
                     /\ e \in Parsers =>
                           IsSpacedTree(results[e].value, options.parse_options.number_as_string)
                ELSE /\ results[e].status = "error"
                     /\ results[e].err.ch # -1 => results[e].err.ch = FirstOther(meta.fill)

\* a tab and a form feed after the ':' of the object
OnlyFourSpacesWitness ==
    /\ meta.family = "space"
    /\ meta.gap = 6
    /\ meta.fill = <<TAB, FF>>
    /\ meta.rest = <<SPACE, LF>>
    /\ results["parse_file"].status = "error"
    /\ results["parse_file"].err.ch = FF

\* the token of the input starts no value
StartsNoValue(m) == m.tok[1] \in OtherBytes

\* C20: wherever a value is expected (at the root, as an array element, as an
\* object value, at any depth) and the byte there is none of t f n " [ { - 0-9,
\* every entry point fails with the unknown type error, which names that byte and
\* reports the 1-based position of that byte.
UnknownTypeAtItsPosition ==
    (meta.family = "unknown" /\ StartsNoValue(meta)) =>
        \A e \in Entries :
            Done(e) =>
                /\ FailedWith(e, "unknown type starting with")
                /\ results[e].err.ch = meta.tok[1]
                /\ results[e].err.pos = Len(meta.ctx.pre) + 1

\* the 1-based position of the first byte of b that is no whitespace
RootPosition(b) == CHOOSE i \in 1..Len(b) : b[i] \notin Spaces /\ OnlySpaces(SubSeq(b, 1, i - 1))

\* what parse_internal does: the error is raised for these bytes and no others,
\* it names the byte, and it reports start, the position of the first byte of
\* the root (line 743)
UnknownTypeReportsRoot ==
    meta.family = "unknown" =>
        \A e \in Entries :
            Done(e) =>
                /\ FailedWith(e, "unknown type starting with") <=> StartsNoValue(meta)
                /\ StartsNoValue(meta) =>
                      /\ results[e].err.ch = meta.tok[1]
                      /\ results[e].err.pos = RootPosition(bytes)

\* [null, a] : the 'a' is byte 8, and the error reports position 1
UnknownTypeWitness ==
    /\ meta.family = "unknown"
    /\ meta.ctx.name = "element"
    /\ meta.tok = <<LOWER_A>>
    /\ meta.closed
    /\ FailedWith("parse_string", "unknown type starting with")
    /\ results["parse_string"].err.ch = LOWER_A
    /\ results["parse_string"].err.pos = 1

UnterminatedMessage(kind) ==
    IF kind = "array" THEN "unterminated array starting at position"
    ELSE "unterminated object starting at position"

\* C21: when the input ends while an array or object is open, every entry point
\* fails with the unterminated array or object error, whose position is the
\* 1-based position of the opening bracket of the innermost container that is
\* still open, at every depth.
UnterminatedAtItsBracket ==
    (meta.family = "open" /\ meta.stop # "done") =>
        \A e \in Entries :
            Done(e) =>
                /\ FailedWith(e, UnterminatedMessage(meta.chain[Len(meta.chain)]))
                /\ results[e].err.pos = Len(OuterTexts(meta)) + 1

\* what parse_internal does: the error is that of the innermost container, and
\* its position is start, the position of the first byte of the root (line 743)
UnterminatedReportsRoot ==
    meta.family = "open" =>
        \A e \in Entries :
            Done(e) =>
                IF meta.stop = "done" THEN Succeeded(e)
                ELSE /\ FailedWith(e, UnterminatedMessage(meta.chain[Len(meta.chain)]))
                     /\ results[e].err.pos = Len(meta.ws) + 1

\* [1, {"b":[1, : the innermost array opens at byte 10, the error reports 1
UnterminatedWitness ==
    /\ meta.family = "open"
    /\ meta.ws = <<>>
    /\ meta.chain = <<"array", "object", "array">>
    /\ meta.stop = "comma"
    /\ FailedWith("parse_file", "unterminated array starting at position")
    /\ results["parse_file"].err.pos = 1

\* C22: every error raised by an entry point carries a 1-based byte position in
\* its message.
EveryErrorHasPosition ==
    \A e \in Entries : results[e].status = "error" => results[e].err.pos >= 1

\* the messages that the source builds without a position (lines 448, 725, 1163)
Positionless ==
    {"unrecognized escape", "invalid JSON with no contents", "failed to read file (error"}

\* what the code does: those messages carry no position, and all others do
OnlyPositionlessLackPosition ==
    \A e \in Entries :
        results[e].status = "error" =>
            (results[e].err.pos = 0 <=> results[e].err.what \in Positionless)

\* a string with an escape that is none of the known ones, at the root: the
\* message names the character and no position
PositionlessWitness ==
    /\ meta.family = "string"
    /\ meta.ctx.name = "root"
    /\ FailedWith("parse_string", "unrecognized escape")
    /\ results["parse_string"].err.ch # -1
    /\ results["parse_string"].err.pos = 0

FileEntries == {"parse_file", "validate_file"}

\* C26: a file handle that was opened is closed exactly once on every way out of
\* parse_file and validate_file: return, parse error, a read that fails during a
\* refill, and a read that fails during the first fill, in the constructor.
HandlesClosedOnce ==
    /\ handles.closed <= handles.opened
    /\ entry = "none" => handles.closed = handles.opened

\* what the code does: a handle stays open only after the error of a failed read
HandlesLeakOnlyOnReadFailure ==
    (entry = "none" /\ handles.closed # handles.opened) =>
        \E e \in FileEntries : FailedWith(e, "failed to read file (error")

\* parse_file has thrown the read error out of the constructor: one handle
\* opened, none closed, and nothing is running
HandleLeakWitness ==
    /\ meta.family = "io"
    /\ entry = "none"
    /\ calls = 3
    /\ FailedWith("parse_file", "failed to read file (error")
    /\ handles = [opened |-> 1, closed |-> 0]

\* C27: the buffer of the file reader holds at least one byte whatever
\* buffer_size the caller sets, 0 included, so that a read makes progress on a
\* file that is not empty.
BufferHoldsAByte ==
    ("input" \in DOMAIN act /\ act.input.kind = "file") => Len(act.input.my_buffer) >= 1

\* what follows from a buffer of no bytes: every read returns 0 bytes, which is
\* the size asked for, so the reader is never valid and never finished, and the
\* file is taken to have no contents
EmptyBufferReadsNothing ==
    \A e \in FileEntries :
        (meta.family = "io" /\ options.buffer_size = 0 /\ Done(e)) =>
            FailedWith(e, "invalid JSON with no contents")

\* the file holding 1, read with buffer_size 0: the memory is parsed, the file
\* is refused as having no contents
EmptyBufferWitness ==
    /\ meta.family = "io"
    /\ bytes = <<DIGIT1>>
    /\ options.buffer_size = 0
    /\ Succeeded("parse_string")
    /\ FailedWith("parse_file", "invalid JSON with no contents")

\* an entry point has just thrown, and act is the activation it left
JustThrown == entry = "none" /\ calls >= 1 /\ act.pc = "thrown"

\* what an entry point hands back is a value or an error, never both
ValueOrError ==
    \A e \in Entries :
        /\ results[e].status = "error" => (results[e].value = NullPtr /\ results[e].type = "")
        /\ results[e].status = "ok" => results[e].err = NoErr

\* the activation that has thrown holds no output and stands on the byte that
\* starts no value: nothing after it was consumed
StoppedAtError ==
    (meta.family = "unknown" /\ StartsNoValue(meta)) =>
        /\ \A e \in Entries : Done(e) => FailedWith(e, "unknown type starting with")
        /\ JustThrown =>
              /\ act.output = NullPtr
              /\ position(act.input) = Len(meta.ctx.pre)

\* an activation that has thrown is not resumed: it stays as it is until the
\* next entry point is called
NoRecovery == (act.pc = "thrown" /\ act' # act) => calls' = calls + 1

\* C23: the first error met in the input ends the parse: no byte after it is
\* consumed, the parse is not resumed, and neither the root nor a subtree built
\* so far is handed to the caller; a value is returned only when no error was
\* raised.
FirstErrorAborts == [](ValueOrError /\ StoppedAtError) /\ [][NoRecovery]_vars

\* [null,{"b":[1,+ : an unknown byte three containers deep, with null and 1
\* already built and no container closed; the error is the unknown type, not the
\* unterminated array
FirstErrorWitness ==
    /\ meta.family = "unknown"
    /\ meta.ctx.name = "nested"
    /\ meta.tok = <<PLUS>>
    /\ ~meta.closed
    /\ JustThrown
    /\ calls = 1
    /\ Len(act.stack) = 3
    /\ act.array_stack[1] # <<>>
    /\ results["parse_string"].value = NullPtr

\* ---- the readers driven call by call
\* the number of reads issued on the file so far
ReadsOf(w) == IF w.phase = "open" THEN w.file.my_handle.reads ELSE 0

\* the offset in the file at which the next read starts
OffsetOf(w) == IF w.phase = "open" THEN w.file.my_handle.offset ELSE 0

\* the step has issued one read on the file
ReadIssued == walk'.phase = "open" /\ ReadsOf(walk') = ReadsOf(walk) + 1

\* the bytes the read has returned are the next bytes of the file, and are what
\* the reader now offers
ReadBytesAvailable(before, f) ==
    \A i \in 1..f.my_available :
        /\ before + i <= Len(bytes)
        /\ f.my_buffer[i] = bytes[before + i]

\* after a read: f is the reader, size the size of its buffer
FillOutcome(before, f, size) ==
    IF f.my_available = size
    THEN ~f.failed /\ ~f.my_finished
    ELSE IF f.my_handle.eof
    THEN ~f.failed /\ f.my_finished /\ ReadBytesAvailable(before, f)
    ELSE f.failed /\ f.io_error.what = "failed to read file (error"

\* C24: when a block read returns fewer bytes than the buffer holds, the reader
\* looks at the EOF indicator of the stream: set, it records that it has
\* finished and raises nothing, and the bytes read stay available; clear, it
\* raises the failed to read file error.  A read that fills the buffer neither
\* raises nor marks the reader finished.
FillChecksEof ==
    [][ReadIssued => FillOutcome(OffsetOf(walk), walk'.file, Len(walk'.file.my_buffer))]_vars

\* a read of one byte into a buffer of three at the end of the file: finished,
\* and the byte is there to be read
FillChecksEofWitness ==
    /\ walk.phase = "open"
    /\ Len(walk.file.my_buffer) = 3
    /\ walk.file.my_available = 1
    /\ walk.file.my_finished
    /\ walk.k = 3
    /\ valid(walk.file)
    /\ get(walk.file) = bytes[4]

\* the advance() of the step leads the file reader to fill()
Refilled(f) == f.my_index + 1 >= f.my_available

\* C25: once the file reader has seen the end of the file, no advance() issues
\* a read on the handle, whatever the length of the file and the size (1 or
\* more) of the buffer; a refill leaves no byte available, and a reader that is
\* no longer valid stays so.
NoReadAfterEof ==
    [][(/\ walk.phase = "open"
        /\ walk.buffer_size >= 1
        /\ walk.file.my_finished) =>
           /\ ReadsOf(walk') = ReadsOf(walk)
           /\ walk'.file.my_finished
           /\ Refilled(walk.file) => (walk'.file.my_available = 0 /\ ~valid(walk'.file))
           /\ ~valid(walk.file) => ~valid(walk'.file)]_vars

\* a file of two bytes read with a buffer of two: the second read found the end,
\* and two more calls of advance() have issued no third
NoReadAfterEofWitness ==
    /\ walk.phase = "open"
    /\ Len(bytes) = 2
    /\ walk.buffer_size = 2
    /\ walk.k = 4
    /\ walk.file.my_finished
    /\ ~walk.file.failed
    /\ ReadsOf(walk) = 2

\* the contract of the interface where both readers are on byte k of the stream
OnByte(w, r) == valid(r) /\ get(r) = bytes[w.k + 1] /\ position(r) = w.k

\* the readers, for a buffer of one byte or more and as long as no read has
\* failed
Contract(w) ==
    (w.phase = "open" /\ w.buffer_size >= 1 /\ ~w.file.failed) =>
        /\ w.k < Len(bytes) => (OnByte(w, w.raw) /\ OnByte(w, w.file))
        /\ w.raw_ok = (w.k < Len(bytes))
        /\ w.file_ok = (w.k < Len(bytes))

\* position() over a call of advance() that returned ok
Monotone(r, after, ok) ==
    /\ position(after) >= position(r)
    /\ ok => position(after) = position(r) + 1

PositionsGrow ==
    (walk.phase = "open" /\ walk'.phase = "open" /\ walk.buffer_size >= 1
     /\ ~walk'.file.failed) =>
        /\ Monotone(walk.raw, walk'.raw, walk'.raw_ok)
        /\ Monotone(walk.file, walk'.file, walk'.file_ok)

\* C29: the contract of a byte source, for both readers over a stream of n
\* bytes and a buffer of one byte or more: after k calls of advance(), k < n,
\* valid() holds, get() is byte k and position() is k; the k-th call returns
\* true exactly when k < n; position() never decreases and grows by 1 on every
\* call that returns true; and the file reader shows what the memory reader
\* shows wherever they are valid.
ByteSourceContract == []Contract(walk) /\ [][PositionsGrow]_vars

\* a file of four bytes read with a buffer of three, after three calls: the
\* reader is on the first byte of its second block
ByteSourceWitness ==
    /\ walk.phase = "open"
    /\ Len(bytes) = 4
    /\ walk.buffer_size = 3
    /\ walk.k = 3
    /\ walk.file.my_overall = 3
    /\ walk.file_ok
    /\ get(walk.file) = get(walk.raw)
    /\ position(walk.file) = 3

\* C28: check_buffer_size(n) is n for every n below the greatest buffer length
\* and that length for every n at or above it; so it is at most n and at most
\* the greatest length, and check_buffer_size(1) = 1.
CheckBufferSizeCaps ==
    walk.phase = "sized" =>
        /\ meta.n < max_size => walk.size = meta.n
        /\ meta.n >= max_size => walk.size = max_size
        /\ walk.size <= meta.n
        /\ walk.size <= max_size
        /\ meta.n = 1 => walk.size = 1

\* the size just below the greatest length comes back unchanged
CheckBufferSizeWitness ==
    /\ walk.phase = "sized"
    /\ meta.n = max_size - 1
    /\ walk.size = max_size - 1

\* C30: parses that run at the same time, each on its own reader and input and
\* interleaved in any order, each end with the result (value or error) they end
\* with when run alone, and a step of one parse leaves every other parse's
\* cursor, stacks and output as they were.
RECURSIVE RunAlone(_)
RunAlone(a) == IF Live(a) THEN RunAlone(parse_step(a)) ELSE a

Outcome(e, a) == IF a.pc = "returned" THEN Returned(e, a) ELSE Thrown(a.err)

Alone(t) == Outcome(t.entry, RunAlone(Begun(t.entry, t.bytes, t.beyond, t.options).act))

SameResult(r1, r2) == SameOutcome(r1, r2) /\ r1.value = r2.value

\* every parse is, at every moment, on the way to the result of its run alone
OnItsOwnTrack ==
    \A i \in 1..Len(tasks) :
        SameResult(Outcome(tasks[i].entry, RunAlone(tasks[i].act)), Alone(tasks[i]))

OthersUntouched ==
    /\ Len(tasks') >= Len(tasks)
    /\ \E i \in 1..Len(tasks') : \A j \in 1..Len(tasks) : j # i => tasks'[j] = tasks[j]

ConcurrentParsesDone ==
    /\ Len(tasks) = 2
    /\ tasks[1].act.pc = "returned"
    /\ tasks[2].act.pc = "thrown"

\* What the array grammar makes of the tokens of an input of the family "array",
\* read one token at a time: st is "first" after '[', "next" after ',', "num"
\* inside a number, "after" after an element and "done" after the root's ']';
\* d is the number of open arrays, n the number of elements of the root so far,
\* off the number of bytes before token i.
ArrOutcome(kind, ch, pos, n) == [kind |-> kind, ch |-> ch, pos |-> pos, n |-> n]

ArrCount(d, n) == IF d = 1 THEN n + 1 ELSE n

ArrClosed(d) == IF d = 1 THEN "done" ELSE "after"

RECURSIVE ArrScan(_, _, _, _, _, _)
ArrTok(toks, i, t, st, d, n, off) ==
    CASE t = <<SPACE>> ->
            ArrScan(toks, i + 1, IF st = "num" THEN "after" ELSE st, d, n, off + 1)
      [] t # <<SPACE>> /\ st = "done" -> ArrOutcome("trailing", t[1], off + 1, n)
      [] t = <<RBRACKET>> /\ st \in {"first", "num", "after"} ->
            ArrScan(toks, i + 1, ArrClosed(d), d - 1, n, off + 1)
      [] t = <<COMMA>> /\ st \in {"num", "after"} -> ArrScan(toks, i + 1, "next", d, n, off + 1)
      [] t = <<LBRACKET>> /\ st \in {"first", "next"} ->
            ArrScan(toks, i + 1, "first", d + 1, ArrCount(d, n), off + 1)
      [] t = <<DIGIT1>> /\ st \in {"first", "next"} ->
            ArrScan(toks, i + 1, "num", d, ArrCount(d, n), off + 1)
      [] t = <<DIGIT1>> /\ st = "num" -> ArrScan(toks, i + 1, "num", d, n, off + 1)
      [] t = LitNull /\ st \in {"first", "next"} ->
            ArrScan(toks, i + 1, "after", d, ArrCount(d, n), off + Len(LitNull))
      [] OTHER ->
            ArrOutcome(CASE st = "after" -> "unknown character"
                         [] st = "num" -> "number"
                         [] OTHER -> "unknown type", t[1], off + 1, n)

ArrScan(toks, i, st, d, n, off) ==
    IF i > Len(toks)
    THEN ArrOutcome(IF st = "done" THEN "ok" ELSE "unterminated", -1, 0, n)
    ELSE ArrTok(toks, i, toks[i], st, d, n, off)

ArrExpected(m) == ArrScan(m.toks, 2, "first", 1, 0, 1)

ArrResultIs(e, x) ==
    CASE x.kind = "ok" ->
            /\ Succeeded(e)
            /\ results[e].type = "ARRAY"
            /\ e \in Parsers => Len(results[e].value.value) = x.n
      [] x.kind = "unterminated" -> FailedWith(e, "unterminated array starting at position")
      [] x.kind = "unknown character" ->
            results[e].status = "error"
            /\ results[e].err = Err("unknown character in array at position", x.ch, x.pos)
      [] x.kind = "unknown type" ->
            FailedWith(e, "unknown type starting with") /\ results[e].err.ch = x.ch
      [] x.kind = "number" -> FailedWith(e, "invalid number containing") /\ results[e].err.ch = x.ch
      [] x.kind = "trailing" ->
            results[e].status = "error"
            /\ results[e].err =
                  ErrAt("invalid JSON with trailing non-space characters at position", x.pos)

\* C31: after an element of an open array only ',' or ']' may follow: the end of
\* the input is an unterminated array, any other byte an unknown character
\* reported at its own 1-based position; after ',' a value must follow, so neither
\* a trailing nor a leading comma is accepted; '[' and ']' with only whitespace
\* between them are an empty array, for which no frame is ever pushed.
ArrayElementsSeparated ==
    meta.family = "array" =>
        /\ \A e \in Entries : Done(e) => ArrResultIs(e, ArrExpected(meta))
        /\ (ArrExpected(meta).kind = "ok" /\ ArrExpected(meta).n = 0) => act.stack = <<>>

\* '[1 a': the letter after the element is reported at position 4
ArrayElementsWitness ==
    /\ meta.family = "array"
    /\ meta.toks = <<<<LBRACKET>>, <<DIGIT1>>, <<SPACE>>, <<LOWER_A>>>>
    /\ \A e \in Entries :
          results[e].status = "error"
          /\ results[e].err = Err("unknown character in array at position", LOWER_A, 4)

\* '[1, ]' and '[ , ]' have failed, and '[ ]' is an empty array
ArrayCommaWitness ==
    /\ meta.family = "array"
    /\ meta.toks \in {<<<<LBRACKET>>, <<DIGIT1>>, <<COMMA>>, <<SPACE>>, <<RBRACKET>>>>,
                      <<<<LBRACKET>>, <<SPACE>>, <<COMMA>>, <<SPACE>>, <<RBRACKET>>>>}
    /\ \A e \in Entries : FailedWith(e, "unknown type starting with")

\* What the object grammar makes of the tokens of an input of the family "object":
\* st is "key1" after '{', "key" after ',', "colon" after a key, "value" after
\* ':', "num" inside a number, "after" after a value and "done" after the root's
\* '}'; d is the number of open objects, n the number of entries of the root, off
\* the number of bytes before token i.
ObjClosed(d) == IF d = 1 THEN "done" ELSE "after"

RECURSIVE ObjScan(_, _, _, _, _, _)
ObjTok(toks, i, t, st, d, n, off) ==
    CASE t = <<SPACE>> ->
            ObjScan(toks, i + 1, IF st = "num" THEN "after" ELSE st, d, n, off + 1)
      [] t # <<SPACE>> /\ st = "done" -> ArrOutcome("trailing", t[1], off + 1, n)
      [] t = <<RBRACE>> /\ st \in {"key1", "num", "after"} ->
            ObjScan(toks, i + 1, ObjClosed(d), d - 1, n, off + 1)
      [] t = <<COMMA>> /\ st \in {"num", "after"} -> ObjScan(toks, i + 1, "key", d, n, off + 1)
      [] t = StrA /\ st \in {"key1", "key"} -> ObjScan(toks, i + 1, "colon", d, n, off + Len(StrA))
      [] t = <<COLON>> /\ st = "colon" -> ObjScan(toks, i + 1, "value", d, n, off + 1)
      [] t = StrA /\ st = "value" ->
            ObjScan(toks, i + 1, "after", d, ArrCount(d, n), off + Len(StrA))
      [] t = <<DIGIT1>> /\ st = "value" -> ObjScan(toks, i + 1, "num", d, ArrCount(d, n), off + 1)
      [] t = <<DIGIT1>> /\ st = "num" -> ObjScan(toks, i + 1, "num", d, n, off + 1)
      [] t = <<LBRACE>> /\ st = "value" ->
            ObjScan(toks, i + 1, "key1", d + 1, ArrCount(d, n), off + 1)
      [] OTHER ->
            ArrOutcome(CASE st \in {"key1", "key"} -> "expected key"
                         [] st = "colon" -> "expected colon"
                         [] st = "value" -> "unknown type"
                         [] st = "num" -> "number"
                         [] st = "after" -> "unknown character", t[1], off + 1, n)

ObjScan(toks, i, st, d, n, off) ==
    IF i > Len(toks)
    THEN ArrOutcome(IF st = "done" THEN "ok" ELSE "unterminated", -1, 0, n)
    ELSE ObjTok(toks, i, toks[i], st, d, n, off)

ObjExpected(m) == ObjScan(m.toks, 2, "key1", 1, 0, 1)

ErrorIs(e, err) == results[e].status = "error" /\ results[e].err = err

ObjResultIs(e, x) ==
    CASE x.kind = "ok" ->
            /\ Succeeded(e)
            /\ results[e].type = "OBJECT"
            /\ e \in Parsers =>
                  DOMAIN results[e].value.value = (IF x.n = 0 THEN {} ELSE {<<LOWER_A>>})
      [] x.kind = "unterminated" -> FailedWith(e, "unterminated object starting at position")
      [] x.kind = "expected key" ->
            ErrorIs(e, ErrAt("expected a string as the object key at position", x.pos))
      [] x.kind = "expected colon" ->
            ErrorIs(e, ErrAt("expected ':' to separate keys and values at position", x.pos))
      [] x.kind = "unknown character" ->
            ErrorIs(e, Err("unknown character in array at position", x.ch, x.pos))
      [] x.kind = "unknown type" ->
            FailedWith(e, "unknown type starting with") /\ results[e].err.ch = x.ch
      [] x.kind = "number" -> FailedWith(e, "invalid number containing") /\ results[e].err.ch = x.ch
      [] x.kind = "trailing" ->
            ErrorIs(e, ErrAt("invalid JSON with trailing non-space characters at position", x.pos))

\* C32: in an object every entry is a string key, ':' and a value, with optional
\* whitespace around the ':'; anything but a string where a key must be (a '}'
\* right after ',' too) is "expected a string as the object key", anything but
\* ':' after the key is "expected ':'", anything but ',' or '}' after the value
\* is "unknown character", and the end of the input at any of these points is
\* "unterminated object".
ObjectEntriesWellFormed ==
    meta.family = "object" =>
        \A e \in Entries : Done(e) => ObjResultIs(e, ObjExpected(meta))

\* '{"a":1,}': the '}' where the second key must be is at position 8
ObjectEntriesWitness ==
    /\ meta.family = "object"
    /\ meta.toks = <<<<LBRACE>>, StrA, <<COLON>>, <<DIGIT1>>, <<COMMA>>, <<RBRACE>>>>
    /\ \A e \in Entries : ErrorIs(e, ErrAt("expected a string as the object key at position", 8))

\* the second value of an input of the family "dup" does not parse: it is
\* malformed, cut off, or a number run into by a byte that cannot end one
DuplicateMessage == "detected duplicate keys in the object at position"

NumberRunInto(m) ==
    /\ m.v.kind = "number"
    /\ m.rest # <<>>
    /\ m.rest[1] \notin {SPACE, COMMA, RBRACE}

ValueFails(m) == m.v.kind \in {"bad", "cut"} \/ NumberRunInto(m)

ValueError(m) == IF NumberRunInto(m) THEN "invalid number containing" ELSE m.v.what

KeyRepeated(m) == m.k1.out = m.k2.out

\* the 1-based position of the byte after the second value
AfterValue(m) == Len(DupText(m)) - Len(m.rest) + 1

\* what follows a second value that is well-formed and under a new key
RestMessage(rest) ==
    CASE rest \in {<<>>, <<COMMA>>} -> "unterminated object starting at position"
      [] rest \in {<<SPACE, LOWER_B>>, <<LOWER_B>>} -> "unknown character in array at position"
      [] OTHER -> ""

DupResultIs(e, m) ==
    CASE ValueFails(m) -> FailedWith(e, ValueError(m))
      [] ~ValueFails(m) /\ KeyRepeated(m) -> ErrorIs(e, ErrAt(DuplicateMessage, AfterValue(m)))
      [] OTHER -> IF RestMessage(m.rest) = "" THEN Succeeded(e) /\ results[e].type = "OBJECT"
                  ELSE FailedWith(e, RestMessage(m.rest))

\* the step that raises the duplicate-key error is a pass of the unwinding loop
\* with an object on top and the value that was just built in hand
RaisedOnInsertion ==
    (/\ "err" \in DOMAIN act'
     /\ act'.pc = "thrown"
     /\ act'.err.what = DuplicateMessage
     /\ act.pc # "thrown")
        => /\ act.pc = "unwind"
           /\ Back(act.stack) = "OBJECT"
           /\ act.output # NullPtr
           /\ act'.input = act.input

\* C33: the duplicate-key check is made when a value is inserted under its pending
\* key, after the value that follows the repeated key has been parsed: when that
\* value is malformed or unterminated its own error is reported and no
\* duplicate-key error; when it is well-formed the duplicate-key error is raised
\* before the ',' or '}' after it is looked at.
DuplicateCheckedOnInsertion ==
    /\ [](meta.family = "dup" => \A e \in Entries : Done(e) => DupResultIs(e, meta))
    /\ [][RaisedOnInsertion]_vars

\* the key repeats and its value is an array cut off by the end of the input:
\* the error is the array's
DuplicateCheckedWitness ==
    /\ meta.family = "dup"
    /\ KeyRepeated(meta)
    /\ meta.v.text = <<LBRACKET, DIGIT1, COMMA>>
    /\ \A e \in Entries : FailedWith(e, "unterminated array starting at position")

\* the key repeats, its value is well-formed and a stray letter follows: the
\* error is the duplicate key's
DuplicateBeforeNextWitness ==
    /\ meta.family = "dup"
    /\ KeyRepeated(meta)
    /\ meta.v.text = LitNull
    /\ meta.rest = <<LOWER_B>>
    /\ \A e \in Entries : FailedWith(e, DuplicateMessage)

\* the frames under the top frame of an activation
BelowTop(a) ==
    [stack |-> Pop(a.stack),
     array_stack |-> IF a.stack # <<>> /\ Back(a.stack) = "ARRAY" THEN Pop(a.array_stack)
                     ELSE a.array_stack,
     object_stack |-> IF a.stack # <<>> /\ Back(a.stack) = "OBJECT" THEN Pop(a.object_stack)
                      ELSE a.object_stack]

IsPrefix(s, t) == Len(s) <= Len(t) /\ SubSeq(t, 1, Len(s)) = s

FramesKept(f, a) ==
    /\ IsPrefix(f.stack, a.stack)
    /\ IsPrefix(f.array_stack, a.array_stack)
    /\ IsPrefix(f.object_stack, a.object_stack)

SameCall == entry' = entry /\ calls' = calls /\ Live(act) /\ Live(act')

\* a pass of the outer loop leaves every frame as it is, its pending key too, and
\* a pass of the inner loop every frame under the top one
ParentsUntouched ==
    SameCall => IF act.pc = "value" THEN FramesKept(act, act') ELSE FramesKept(BelowTop(act), act')

\* a pass of the inner loop puts the value in hand, a container that has just
\* closed or not, at the end of the top array or under the pending key of the
\* top object, whether that frame then stays open or closes
AttachedToTop ==
    (SameCall /\ act.pc = "unwind" /\ act.stack # <<>> /\ act.P = "Default") =>
        IF Back(act.stack) = "ARRAY"
        THEN IF Len(act'.stack) = Len(act.stack)
             THEN Back(act'.array_stack) = Append(Back(act.array_stack), act.output)
             ELSE act'.output = [type |-> "ARRAY",
                                 value |-> Append(Back(act.array_stack), act.output)]
        ELSE IF Len(act'.stack) = Len(act.stack)
             THEN /\ DOMAIN Back(act'.object_stack).mapping =
                        DOMAIN Back(act.object_stack).mapping \cup {Back(act.object_stack).key}
                  /\ Back(act'.object_stack).mapping[Back(act.object_stack).key] = act.output
             ELSE /\ act'.output.type = "OBJECT"
                  /\ act'.output.value[Back(act.object_stack).key] = act.output

\* every nested container of the document d is found in the tree v where d has it
RECURSIVE NestedInPlace(_, _, _)
NestedInPlace(d, v, nas) ==
    CASE d.kind = "scalar" -> TRUE
      [] d.kind = "array" ->
            \A i \in 1..Len(d.items) :
                d.items[i].kind # "scalar" =>
                    /\ i \in DOMAIN v.value
                    /\ v.value[i] = ToValue(d.items[i], nas)
                    /\ NestedInPlace(d.items[i], v.value[i], nas)
      [] d.kind = "object" ->
            \A i \in 1..Len(d.entries) :
                d.entries[i].value.kind # "scalar" =>
                    /\ d.entries[i].key \in DOMAIN v.value
                    /\ v.value[d.entries[i].key] = ToValue(d.entries[i].value, nas)
                    /\ NestedInPlace(d.entries[i].value, v.value[d.entries[i].key], nas)

NestedWhereOpened ==
    (meta.family = "doc" /\ ~HasDup(meta.doc)) =>
        \A e \in Parsers :
            Succeeded(e) =>
                NestedInPlace(meta.doc, results[e].value, options.parse_options.number_as_string)

\* C34: a nested array or object that closes is attached to the frame that was on
\* top when it was opened: at the next position of that array, or under the key
\* that was pending in that object when the nested container began; the keys and
\* elements read inside the nested container leave the parent frame's pending key
\* and contents as they were.
NestedAttachedToOpener ==
    /\ []NestedWhereOpened
    /\ [][ParentsUntouched /\ AttachedToTop]_vars

\* an object with the keys a and b has just closed inside an object whose pending
\* key is a, and is about to be inserted under it
NestedAttachedWitness ==
    /\ meta.family = "doc"
    /\ Live(act)
    /\ act.pc = "unwind"
    /\ act.P = "Default"
    /\ act.stack = <<"OBJECT">>
    /\ Back(act.object_stack).key = <<LOWER_A>>
    /\ act.output.type = "OBJECT"
    /\ DOMAIN act.output.value = {<<LOWER_A>>, <<LOWER_B>>}

\* the integer that the digits ds denote, from digit i on, v being the value of
\* the digits before
RECURSIVE IntValue(_, _, _)
IntValue(ds, i, v) == IF i > Len(ds) THEN v ELSE IntValue(ds, i + 1, v * 10 + (ds[i] - DIGIT0))

\* the number found in the tree v where the shape has put the literal
PlainIn(shape, v) == IF shape = "element" THEN v.value[1] ELSE v

\* C35: in numeric mode a literal whose fraction is all zeros or whose exponent
\* is zero is the integer of its integer part (512.00 = 512, 9e+0 = 9, 0.000 = 0,
\* 0E2 = 0, 0e-2 = 0), and a literal of digits only is the decimal integer they
\* denote, as value*10 + digit gives it from left to right.
ZeroPartsAreInteger ==
    (meta.family = "plain" /\ ~options.parse_options.number_as_string) =>
        \A e \in Entries :
            Done(e) =>
                /\ Succeeded(e)
                /\ e \in Parsers =>
                      PlainIn(meta.shape, results[e].value) =
                          [type |-> "NUMBER", value |-> DecInt(IntValue(meta.int, 1, 0))]

\* 519.00E+00 in an array has been parsed from a file as 519
ZeroPartsWitness ==
    /\ meta.family = "plain"
    /\ ~options.parse_options.number_as_string
    /\ meta.int = <<DIGIT0 + 5, DIGIT1, DIGIT0 + 9>>
    /\ meta.frac = <<DOT, DIGIT0, DIGIT0>>
    /\ meta.exp = <<UPPER_E, PLUS, DIGIT0, DIGIT0>>
    /\ meta.shape = "element"
    /\ Succeeded("parse_file")
    /\ results["parse_file"].value.value[1].value = DecInt(519)

\* C36: during any parse or validation, over either byte source and for every
\* input, get() is called only while the source is valid: no step reads the
\* current byte after an advance() that returned false or whose result was not
\* checked, so that no byte outside the input, and no stale byte of the buffer,
\* has a part in the result.
GetOnlyWhileValid == ("input" \in DOMAIN act) => ~act.input.invalid_get

\* parse_string on a lone quote has called get() on the exhausted reader, found a
\* quote after the caller's array and returned the empty string
InvalidGetWitness ==
    /\ bytes = <<QUOTE>>
    /\ entry = "none"
    /\ calls = 1
    /\ act.input.kind = "raw"
    /\ act.input.invalid_get
    /\ beyond = QUOTE
    /\ Succeeded("parse_string")
    /\ results["parse_string"].value = [type |-> "STRING", value |-> <<>>]

\* the same input in a file read with a buffer of one byte: the stale byte of the
\* buffer is the quote itself, and the file parses to the empty string
StaleGetWitness ==
    /\ bytes = <<QUOTE>>
    /\ entry = "none"
    /\ calls = 3
    /\ act.input.kind = "file"
    /\ act.input.invalid_get
    /\ Succeeded("parse_file")

\* how many frames of the type stack s have the tag
TagCount(s, tag) == Cardinality({i \in 1..Len(s) : s[i] = tag})

StacksConsistent(a) ==
    /\ \A i \in 1..Len(a.stack) : a.stack[i] \in {"ARRAY", "OBJECT"}
    /\ Len(a.stack) = Len(a.array_stack) + Len(a.object_stack)
    /\ TagCount(a.stack, "ARRAY") = Len(a.array_stack)
    /\ TagCount(a.stack, "OBJECT") = Len(a.object_stack)

\* no node of the tree v is a null pointer (a placeholder has no children)
RECURSIVE FullyBuilt(_)
FullyBuilt(v) ==
    /\ v.type # "nullptr"
    /\ (v.type = "ARRAY" /\ "value" \in DOMAIN v) =>
          \A i \in 1..Len(v.value) : FullyBuilt(v.value[i])
    /\ (v.type = "OBJECT" /\ "value" \in DOMAIN v) =>
          \A k \in DOMAIN v.value : FullyBuilt(v.value[k])

\* C37: wherever the engine dispatches on a byte or looks at the top of the
\* stack, the type stack is as long as the array and object stacks together, has
\* as many ARRAY tags as the array stack has entries and as many OBJECT tags as
\* the object stack has; a value is returned only with the three stacks empty,
\* and it is a root value that is not null and is built in full.
FrameStacksConsistent ==
    /\ act.pc \in {"value", "unwind"} => StacksConsistent(act)
    /\ act.pc = "returned" =>
          /\ act.stack = <<>> /\ act.array_stack = <<>> /\ act.object_stack = <<>>
          /\ FullyBuilt(act.output)
          /\ \A e \in Entries :
                (Succeeded(e) /\ e \in Parsers) => FullyBuilt(results[e].value)

\* an object in an array in an object: two entries on the object stack, one on
\* the array stack, and the innermost value in hand
FrameStacksWitness ==
    /\ act.pc = "unwind"
    /\ act.stack = <<"OBJECT", "ARRAY", "OBJECT">>
    /\ Len(act.object_stack) = 2
    /\ Len(act.array_stack) = 1
    /\ act.output.type # "nullptr"

\* such a document has been returned whole
FrameStacksReturned ==
    /\ act.pc = "returned"
    /\ act.P = "Default"
    /\ act.output.type = "OBJECT"
    /\ \E k \in DOMAIN act.output.value :
          /\ act.output.value[k].type = "ARRAY"
          /\ Len(act.output.value[k].value) = 1
          /\ act.output.value[k].value[1].type = "OBJECT"

\* a pass of the outer or of the inner loop moves the cursor on by a byte at
\* least, or pops a frame, or leaves the inner loop because no frame is left;
\* the code after the loops ends the call
Progress ==
    /\ SameCall =>
          \/ position(act'.input) > position(act.input)
          \/ Len(act'.stack) < Len(act.stack)
          \/ act.pc = "unwind" /\ act.stack = <<>> /\ act'.pc = "finish"
    /\ (entry # "none" /\ act.pc = "finish") => entry' = "none"

\* the step from the activation a to b moves on: it ends the call, moves the
\* cursor, pops a frame or leaves the inner loop
StepMoves(a, b) ==
    \/ ~Live(b)
    \/ position(b.input) > position(a.input)
    \/ Len(b.stack) < Len(a.stack)
    \/ a.pc = "unwind" /\ a.stack = <<>> /\ b.pc = "finish"

\* while an entry point runs its activation is in one of the loops or after them,
\* and its next step changes it: until the last entry point has ended there is
\* a step of Next to take
StepReady ==
    /\ entry # "none" => Live(act) /\ StepMoves(act, parse_step(act))
    /\ entry = "none" => calls \in 0..Len(EntryPoints)

\* the cursor of a running parse is never more than one byte past the input
CursorBounded == Live(act) => position(act.input) <= Len(bytes) + 1

\* C38: for every finite input and either byte source, parse and validate end
\* after finitely many steps, with a value or with an error; every pass of the
\* loops moves the cursor on by at least one byte, pops a frame, or raises.
ParseTerminates ==
    /\ []StepReady
    /\ [][Progress]_vars
    /\ []CursorBounded
    /\ <>AllDone
    /\ [](AllDone => \A e \in Entries : Done(e))

\* the four entry points have ended on an array in an array whose file was read
\* two bytes at a time
ParseTerminatesWitness ==
    /\ AllDone
    /\ meta.family = "array"
    /\ bytes = <<LBRACKET, LBRACKET, DIGIT1, RBRACKET, RBRACKET>>
    /\ options.buffer_size = 2
    /\ \A e \in Entries : Succeeded(e)

\* the keys of the outermost object of an input of the family "dup", as written
\* and as decoded
KeyTexts(m) == {SubSeq(k.text, 2, Len(k.text) - 1) : k \in {m.k1, m.k2}}

KeysOut(m) == {m.k1.out, m.k2.out}

SpeltDifferently(m) == m.k1.text # m.k2.text /\ KeyRepeated(m)

\* while the outermost object is open, the keys it holds and the key it waits
\* for are decoded text
KeysHeldDecoded(m) ==
    (Live(act) /\ act.object_stack # <<>>) =>
        /\ DOMAIN act.object_stack[1].mapping \subseteq KeysOut(m)
        /\ act.object_stack[1].key \in KeysOut(m) \cup {<<>>}

KeysReturnedDecoded(e, m) ==
    (Succeeded(e) /\ e \in Parsers) =>
        /\ results[e].value.type = "OBJECT"
        /\ DOMAIN results[e].value.value = KeysOut(m)
        /\ results[e].value.value[m.k1.out].type \in {"NUMBER", "NUMBER_AS_STRING"}

\* C39: the keys of an object are compared after their escapes are decoded: two
\* keys that are written differently and decode to the same bytes are rejected
\* as duplicates, two keys that decode to different bytes are not, and the keys
\* of the mapping, while it is built and when it is returned, are the decoded text.
KeysComparedDecoded ==
    meta.family = "dup" =>
        /\ KeysHeldDecoded(meta)
        /\ \A e \in Entries : Done(e) =>
              /\ (SpeltDifferently(meta) /\ ~ValueFails(meta)) =>
                    ErrorIs(e, ErrAt(DuplicateMessage, AfterValue(meta)))
              /\ ~KeyRepeated(meta) => ~FailedWith(e, DuplicateMessage)
              /\ KeysReturnedDecoded(e, meta)

\* "a" and then "a": a duplicate
KeysComparedWitness ==
    /\ meta.family = "dup"
    /\ meta.k1.text = Quoted(<<LOWER_A>>)
    /\ meta.k2.text = Quoted(<<BACKSLASH, LOWER_U, DIGIT0, DIGIT0, DIGIT0 + 6, DIGIT1>>)
    /\ meta.v.text = LitNull
    /\ meta.rest = <<RBRACE>>
    /\ \A e \in Entries : ErrorIs(e, ErrAt(DuplicateMessage, 21))

\* "\/" and then "b": the object is returned with the keys "/" and "b"
KeysStoredWitness ==
    /\ meta.family = "dup"
    /\ meta.k1.text = Quoted(<<BACKSLASH, SLASH>>)
    /\ meta.k2.text = Quoted(<<LOWER_B>>)
    /\ meta.rest = <<RBRACE>>
    /\ Succeeded("parse_file")
    /\ DOMAIN results["parse_file"].value.value = {<<SLASH>>, <<LOWER_B>>}
    /\ KeyTexts(meta) # KeysOut(meta)

\* the 1-based index of the quote that closes the string whose text starts at
\* the index i of b, a backslash taking the byte after it along; 0 if none
RECURSIVE ClosingQuote(_, _)
ClosingQuote(b, i) ==
    IF i > Len(b) THEN 0
    ELSE IF b[i] = QUOTE THEN i
    ELSE IF b[i] = BACKSLASH THEN ClosingQuote(b, i + 2)
    ELSE ClosingQuote(b, i + 1)

\* the bytes that end a number
Terminators == {COMMA, RBRACKET, RBRACE, SPACE, CR, LF, TAB}

\* the cursor q (bytes before it) is on the first terminator after the index p + 1,
\* or at the end of the input if there is none
OnTerminator(b, p, q) ==
    /\ q > p
    /\ q <= Len(b)
    /\ \A i \in (p + 1)..q : b[i] \notin Terminators
    /\ q < Len(b) => b[q + 1] \in Terminators

LiteralFor(type, c) ==
    IF type = "NOTHING" THEN LitNull ELSE IF c = LOWER_T THEN LitTrue ELSE LitFalse

\* a pass of the outer loop has built a string, a number or a literal out of the
\* bytes from the cursor on
ScalarBuilt ==
    /\ SameCall
    /\ act.pc = "value"
    /\ act'.pc = "unwind"
    /\ act'.stack = act.stack
    /\ act'.output.type \in {"STRING", "NUMBER", "NUMBER_AS_STRING", "BOOLEAN", "NOTHING"}

CursorAfter(b, p, q, type) ==
    CASE type = "STRING" -> ClosingQuote(b, p + 2) > 0 /\ q = ClosingQuote(b, p + 2)
      [] type \in {"NUMBER", "NUMBER_AS_STRING"} -> OnTerminator(b, p, q)
      [] OTHER -> /\ q = p + Len(LiteralFor(type, b[p + 1]))
                  /\ q <= Len(b)
                  /\ SubSeq(b, p + 1, q) = LiteralFor(type, b[p + 1])

CursorLeftAfterValue ==
    ScalarBuilt => CursorAfter(bytes, position(act.input), position(act'.input), act'.output.type)

\* the cursor of a call never goes back
CursorNeverBack == SameCall => position(act'.input) >= position(act.input)

\* the same, where no byte was read that the source did not have
CursorLeftAfterValid ==
    (ScalarBuilt /\ ~act'.input.invalid_get) =>
        CursorAfter(bytes, position(act.input), position(act'.input), act'.output.type)

\* what holds of the cursor after a value: a string decoded from bytes of the
\* source leaves it one byte past the closing quote, a number on its terminator
\* or at the end, a literal one byte past its last letter
CursorAfterValidValue == [][CursorLeftAfterValid /\ CursorNeverBack]_vars

\* C40: after a string is decoded the cursor is one byte past its closing
\* quote; after a number it is on the terminator that ended the number, which is
\* not consumed, or the source is exhausted; after a literal it is one byte past
\* the last letter; the byte after a value is looked at once.
CursorAfterValue == [][CursorLeftAfterValue /\ CursorNeverBack]_vars

\* a string has been built from the opening quote that ends the input and a
\* byte that the source does not have: the cursor is two bytes past that quote
CursorPastSourceWitness ==
    /\ bytes = <<SPACE, QUOTE>>
    /\ act.pc = "unwind"
    /\ act.output.type = "STRING"
    /\ position(act.input) = Len(bytes) + 1
    /\ ClosingQuote(bytes, 3) = 0

\* a string with an escaped quote in an array: the cursor is on the bracket
CursorAfterStringWitness ==
    /\ act.pc = "unwind"
    /\ act.output.type = "STRING"
    /\ ~act.input.invalid_get
    /\ position(act.input) < Len(bytes)
    /\ \E i \in 1..Len(bytes) : bytes[i] = BACKSLASH /\ i < position(act.input)

\* a number ended by a terminator, which the cursor is on
CursorOnTerminatorWitness ==
    /\ act.pc = "unwind"
    /\ act.output.type = "NUMBER"
    /\ position(act.input) < Len(bytes)
    /\ bytes[position(act.input) + 1] \in Terminators

\* the file is a lone quote, read one byte at a time: the opening quote, still in
\* the buffer, was taken for the closing one too, and a string was built
CursorPastFileWitness ==
    /\ bytes = <<QUOTE>>
    /\ entry = "parse_file"
    /\ act.input.kind = "file"
    /\ options.buffer_size = 1
    /\ act.pc = "unwind"
    /\ act.output = [type |-> "STRING", value |-> <<>>]
    /\ act.input.invalid_get
    /\ position(act.input) = Len(bytes)
    /\ ClosingQuote(bytes, 2) = 0

\* The memory reader reads past the caller's array, and the file reader a stale
\* byte of its buffer, only when the input ends with a quote that opens a string.
ReadsBeyondOnlyAfterQuote ==
    (act.pc # "idle" /\ "input" \in DOMAIN act /\ act.input.invalid_get)
        => EndsWithOpeningQuote(bytes)

====
